---- MODULE Spec2Model ----
(***************************************************************************)
(* cachio: an HTTP client-side cache layered over requests (HTTPCache),    *)
(* httpx (HttpxCacheClient) and aiohttp (AiohttpCacheSession), with a      *)
(* chain of storage backends (InMemoryCache, optionally behind the         *)
(* simulation's ChaosBackend).                                             *)
(*                                                                         *)
(* Conventions of the model:                                               *)
(*  - a header mapping is a function from header names (strings, in the    *)
(*    case the container holds them) to values;                            *)
(*  - a Cache-Control value is the sequence of its comma-separated parts,  *)
(*    each part [k, kind, n]: kind "none" for a bare token, "int" for      *)
(*    k=<integer n>, "empty" for k= and "bad" for k=<non-integer>;         *)
(*  - a Date / Expires value is the instant it denotes, in seconds;        *)
(*  - a body is a sequence of bytes 0..255; a str is a sequence of code    *)
(*    points; base64 text is a sequence of alphabet indices 0..63, with    *)
(*    64 for the padding character '='.                                    *)
(***************************************************************************)
EXTENDS Integers, Sequences, FiniteSets, TLC

VARIABLES
    impl,       \* which integration was constructed
    ctor,       \* outcome of the constructor call: "ok" or "TypeError"
    codes,      \* cacheable_status_codes of the constructed integration
    chaos,      \* TRUE when the backends are wrapped in ChaosBackend
    backends,   \* the tier list: a sequence of InMemoryCache states
    now,        \* wall clock, seconds
    last,       \* the most recent call through send/request
    calls,      \* number of send/request calls made
    sends,      \* number of calls that reached the wrapped transport
    cleared,    \* TRUE once the application cleared a backend directly
    codec,      \* serialisation round trip of one response body
    mem,        \* one InMemoryCache driven directly, with its usage record
    thr,        \* threads calling one InMemoryCache, and its lock
    tasks,      \* concurrent requests through one asynchronous client
    pair,       \* HTTPCache and HttpxCacheClient run side by side
    dec         \* one freshness decision: its inputs and its result

vars == <<impl, ctor, codes, chaos, backends, now, last, calls, sends, cleared, codec,
          mem, thr, tasks, pair, dec>>

----------------------------------------------------------------------------
(* Bounds *)

MaxCalls == 2
MaxTime == 2
MaxBodyLen == 3
MaxSize == 2
MaxTasks == 3
MaxAge == 1

----------------------------------------------------------------------------
(* Program constants *)

FRESH == 1
STALE == 0
TRANSPARENT == 2
NOT_MODIFIED == 304
OK == 200
DefaultMaxSize == 1000
Infinity == 1000000        \* float('inf'): later than every instant
NoTTL == -1                \* ttl=None / default_ttl=None

X_CACHE == "X-Cache"
X_FROM_CACHE == "hits"
X_NOT_FROM_CACHE == "miss"
STALE_WARNING == "110 - \"Response is stale\""

----------------------------------------------------------------------------
(* Header mappings *)

EmptyDict == [x \in {} |-> 0]

\* str.lower() on the header names and directive tokens that occur
Lower(s) ==
    CASE s = "Cache-Control" -> "cache-control"
      [] s = "Date" -> "date"
      [] s = "ETag" -> "etag"
      [] s = "Last-Modified" -> "last-modified"
      [] s = "Expires" -> "expires"
      [] s = "Range" -> "range"
      [] s = "X-Cache" -> "x-cache"
      [] s = "Stale-Warning" -> "stale-warning"
      [] s = "X-Old" -> "x-old"
      [] s = "X-New" -> "x-new"
      [] s = "Location" -> "location"
      [] s = "If-None-Match" -> "if-none-match"
      [] s = "If-Modified-Since" -> "if-modified-since"
      [] OTHER -> s

\* dict: exact-key access
DictHas(h, k) == k \in DOMAIN h
DictPut(h, k, v) == [x \in (DOMAIN h) \cup {k} |-> IF x = k THEN v ELSE h[x]]

\* CaseInsensitiveDict / httpx.Headers / CIMultiDict: access by lowered key
CIKeys(h, k) == {x \in DOMAIN h : Lower(x) = Lower(k)}
CIHas(h, k) == CIKeys(h, k) # {}
CIGet(h, k) == h[CHOOSE x \in CIKeys(h, k) : TRUE]
CIPut(h, k, v) ==
    LET keep == {x \in DOMAIN h : Lower(x) # Lower(k)}
    IN  [x \in keep \cup {k} |-> IF x = k THEN v ELSE h[x]]

\* a merge that copies nothing
CIUpdate_keep(dst, src) == dst

\* for k, v in src.items(): dst[k] = v   on a case-insensitive container
RECURSIVE CIUpdateKeys(_, _, _)
CIUpdateKeys(dst, src, ks) ==
    IF ks = {} THEN dst
    ELSE LET k == CHOOSE x \in ks : TRUE
         IN  CIUpdateKeys(CIPut(dst, k, src[k]), src, ks \ {k})
CIUpdate(dst, src) == CIUpdateKeys(dst, src, DOMAIN src)

\* dict(httpx.Headers): keys come out lower-cased
LowerKeys(h) ==
    [k \in {Lower(x) : x \in DOMAIN h} |-> h[CHOOSE x \in DOMAIN h : Lower(x) = k]]

----------------------------------------------------------------------------
(* Cache-Control *)

Part(k, kind, n) == [k |-> k, kind |-> kind, n |-> n]
Bare(k) == Part(k, "none", 0)
IntVal(k, n) == Part(k, "int", n)

\* the loop of parse_cache_control: later parts overwrite earlier ones
RECURSIVE ParseParts(_, _)
ParseParts(parts, cc) ==
    IF parts = <<>> THEN cc
    ELSE LET p == Head(parts)
         IN  ParseParts(Tail(parts),
                        DictPut(cc, Lower(p.k), [kind |-> p.kind, n |-> p.n]))

\* policy.parse_cache_control(headers: dict)
parse_cache_control(headers) ==
    LET has == IF DictHas(headers, "cache-control")
                   THEN headers["cache-control"] # <<>> ELSE FALSE
        hasT == IF DictHas(headers, "Cache-Control")
                   THEN headers["Cache-Control"] # <<>> ELSE FALSE
    IN  IF has THEN ParseParts(headers["cache-control"], EmptyDict)
        ELSE IF hasT THEN ParseParts(headers["Cache-Control"], EmptyDict)
        ELSE EmptyDict

\* HTTPCache._parse_cache_control(headers: CaseInsensitiveDict)
HTTPCache_parse_cache_control(headers) ==
    IF CIHas(headers, "cache-control")
        THEN ParseParts(CIGet(headers, "cache-control"), EmptyDict)
        ELSE EmptyDict

\* int() rejecting every directive value
CCInt_never(cc, k) == FALSE

\* cc.get(k) is not None
CCValued(cc, k) == IF k \in DOMAIN cc THEN cc[k].kind # "none" ELSE FALSE

\* int(cc.get(k)) succeeds
CCInt(cc, k) == IF k \in DOMAIN cc THEN cc[k].kind = "int" ELSE FALSE

----------------------------------------------------------------------------
(* Freshness engine *)

\* a decision that tests the response's no-cache before the request's
FreshnessDecision_resp_first(req_cc, resp_cc, date, hasExpires, expiresVal, t) ==
    IF "no-cache" \in DOMAIN resp_cc THEN STALE
    ELSE IF "no-cache" \in DOMAIN req_cc THEN TRANSPARENT
    ELSE IF "only-if-cached" \in DOMAIN req_cc THEN FRESH
    ELSE STALE

\* a decision that tests the request's only-if-cached before the response's
\* no-cache
FreshnessDecision_cached_first(req_cc, resp_cc, date, hasExpires, expiresVal, t) ==
    IF "no-cache" \in DOMAIN req_cc THEN TRANSPARENT
    ELSE IF "only-if-cached" \in DOMAIN req_cc THEN FRESH
    ELSE STALE

\* a baseline with current_age < max-age in place of current_age <= max-age
Baseline_strict(resp_cc, current_age, hasExpires, expiresVal, t) ==
    IF CCValued(resp_cc, "max-age")
        THEN IF CCInt(resp_cc, "max-age")
                THEN current_age < resp_cc["max-age"].n
                ELSE FALSE
    ELSE IF hasExpires THEN t <= expiresVal
    ELSE FALSE

\* a max-stale step that ignores the directive
MaxStale_ignored(fresh, req_cc, resp_cc, current_age) == fresh

\* a min-fresh step that ignores the directive
MinFresh_ignored(fresh, req_cc, resp_cc, current_age) == fresh

\* baseline freshness: max-age, else Expires, else not fresh
Baseline(resp_cc, current_age, hasExpires, expiresVal, t) ==
    IF CCValued(resp_cc, "max-age")
        THEN IF CCInt(resp_cc, "max-age")
                THEN current_age <= resp_cc["max-age"].n
                ELSE FALSE
    ELSE IF hasExpires THEN t <= expiresVal
    ELSE FALSE

\* max-stale relaxation of a decision that is not fresh
MaxStale(fresh, req_cc, resp_cc, current_age) ==
    IF ~fresh /\ CCValued(req_cc, "max-stale")
        THEN IF req_cc["max-stale"].kind = "empty" THEN TRUE
             ELSE IF CCInt(req_cc, "max-stale")
                      /\ CCValued(resp_cc, "max-age")
                      /\ CCInt(resp_cc, "max-age")
                 THEN current_age - resp_cc["max-age"].n
                          <= req_cc["max-stale"].n
                 ELSE FALSE
        ELSE fresh

\* min-fresh tightening of a decision that is fresh
MinFresh(fresh, req_cc, resp_cc, current_age) ==
    IF fresh /\ CCValued(req_cc, "min-fresh")
        THEN IF CCInt(req_cc, "min-fresh")
                /\ CCValued(resp_cc, "max-age")
                /\ CCInt(resp_cc, "max-age")
             THEN ~(resp_cc["max-age"].n - current_age
                        < req_cc["min-fresh"].n)
             ELSE TRUE
        ELSE fresh

\* email.utils.parsedate_to_datetime(value) raises ValueError for a value
\* that is no RFC 2822 date ("0", "soon"); BadDate stands for such a value
\* and VALUE_ERROR for the exception leaving check_freshness
BadDate == -1
VALUE_ERROR == 3

\* to_date(exp) raises: reached when max-age is absent (None) and the
\* response has an Expires header; no try encloses the call
ExpiresRaises(resp_cc, hasExpires, expiresVal) ==
    ~CCValued(resp_cc, "max-age") /\ hasExpires /\ expiresVal = BadDate

\* the decision shared by policy.check_freshness and
\* HTTPCache._check_freshness, from the parsed directives on.  date is the
\* response's Date or, without one, the clock as read in the except branch;
\* t is the clock as read afterwards for `now`.
FreshnessDecision(req_cc, resp_cc, date, hasExpires, expiresVal, t) ==
    IF "no-cache" \in DOMAIN req_cc THEN TRANSPARENT
    ELSE IF "no-cache" \in DOMAIN resp_cc THEN STALE
    ELSE IF "only-if-cached" \in DOMAIN req_cc THEN FRESH
    ELSE IF ExpiresRaises(resp_cc, hasExpires, expiresVal) THEN VALUE_ERROR
    ELSE
    LET current_age == t - date
        fresh0 == Baseline(resp_cc, current_age, hasExpires, expiresVal, t)
        fresh1 == MaxStale(fresh0, req_cc, resp_cc, current_age)
        fresh2 == MinFresh(fresh1, req_cc, resp_cc, current_age)
    IN  IF fresh2 THEN FRESH ELSE STALE

\* utils.check_date on a plain dict: headers.get("Date"), exact key
DictHasDate(headers) == DictHas(headers, "Date")

\* try: date = check_date(...) / except DateDirectiveMissing: date =
\* datetime.now(): the clock is read at t0 for the substitute and read
\* again, at t >= t0, for `now`
DateOr(headers, t0, t) == IF DictHasDate(headers) THEN headers["Date"] ELSE t0
HTTPCache_DateOr(headers, t0, t) ==
    IF CIHas(headers, "Date") THEN CIGet(headers, "Date") ELSE t0

\* policy.check_freshness(req_headers: dict, resp_headers: dict), its two
\* clock reads at t0 and t
check_freshness_at(req_headers, resp_headers, t0, t) ==
    LET hasExp == DictHas(resp_headers, "expires") \/ DictHas(resp_headers, "Expires")
        exp == IF DictHas(resp_headers, "expires") THEN resp_headers["expires"]
               ELSE IF DictHas(resp_headers, "Expires") THEN resp_headers["Expires"]
               ELSE 0
    IN  FreshnessDecision(parse_cache_control(req_headers),
                          parse_cache_control(resp_headers),
                          DateOr(resp_headers, t0, t),
                          hasExp, exp, t)

\* HTTPCache._check_freshness(req, resp): CaseInsensitiveDict access
HTTPCache_check_freshness_at(req_headers, resp_headers, t0, t) ==
    FreshnessDecision(HTTPCache_parse_cache_control(req_headers),
                      HTTPCache_parse_cache_control(resp_headers),
                      HTTPCache_DateOr(resp_headers, t0, t),
                      CIHas(resp_headers, "expires"),
                      IF CIHas(resp_headers, "expires") THEN CIGet(resp_headers, "expires") ELSE 0,
                      t)

\* the engine as called from send/request: a call is one step at one
\* instant of the clock, so both reads give that instant
check_freshness(req_headers, resp_headers, t) ==
    check_freshness_at(req_headers, resp_headers, t, t)
HTTPCache_check_freshness(req_headers, resp_headers, t) ==
    HTTPCache_check_freshness_at(req_headers, resp_headers, t, t)

\* the window test with age < stale_window in place of age <= stale_window
StaleWindowCovers_strict(cc, date, t) ==
    IF ~CCValued(cc, "stale-if-error") THEN FALSE
    ELSE IF cc["stale-if-error"].kind # "int" THEN FALSE
    ELSE LET age == t - date
         IN  age < cc["stale-if-error"].n

\* stale-if-error window test, from the parsed directives on
StaleWindowCovers(cc, date, t) ==
    IF ~CCValued(cc, "stale-if-error") THEN FALSE
    ELSE IF cc["stale-if-error"].kind # "int" THEN FALSE
    ELSE LET age == t - date
         IN  age <= cc["stale-if-error"].n

\* policy.check_stale_if_error(resp_headers: dict), its two clock reads at
\* t0 and t
check_stale_if_error_at(resp_headers, t0, t) ==
    StaleWindowCovers(parse_cache_control(resp_headers), DateOr(resp_headers, t0, t), t)

\* HTTPCache._stale_error_check(resp)
HTTPCache_stale_error_check_at(resp_headers, t0, t) ==
    StaleWindowCovers(HTTPCache_parse_cache_control(resp_headers),
                      HTTPCache_DateOr(resp_headers, t0, t), t)

\* the evaluator as called from send/request, both reads at one instant
check_stale_if_error(resp_headers, t) == check_stale_if_error_at(resp_headers, t, t)
HTTPCache_stale_error_check(resp_headers, t) ==
    HTTPCache_stale_error_check_at(resp_headers, t, t)

----------------------------------------------------------------------------
(* Body encodings *)

REPLACEMENT == 65533       \* U+FFFD, what errors='replace' substitutes

IsCont(b) == b >= 128 /\ b <= 191

\* bytes.decode('utf-8', errors='replace') for bytes below 0xF0: one U+FFFD
\* for each maximal ill-formed subpart
RECURSIVE utf8_decode_replace(_)
utf8_decode_replace(bs) ==
    IF bs = <<>> THEN <<>>
    ELSE
    LET b == bs[1]
        n == Len(bs)
    IN  IF b < 128 THEN <<b>> \o utf8_decode_replace(Tail(bs))
        ELSE IF b >= 194 /\ b <= 223 THEN
            IF n >= 2 /\ IsCont(bs[2])
                THEN <<(b - 192) * 64 + (bs[2] - 128)>>
                         \o utf8_decode_replace(SubSeq(bs, 3, n))
                ELSE <<REPLACEMENT>> \o utf8_decode_replace(Tail(bs))
        ELSE IF b >= 224 /\ b <= 239 THEN
            LET lo == IF b = 224 THEN 160 ELSE 128
                hi == IF b = 237 THEN 159 ELSE 191
            IN  IF ~(n >= 2 /\ bs[2] >= lo /\ bs[2] <= hi)
                    THEN <<REPLACEMENT>> \o utf8_decode_replace(Tail(bs))
                ELSE IF n >= 3 /\ IsCont(bs[3])
                    THEN <<(b - 224) * 4096 + (bs[2] - 128) * 64 + (bs[3] - 128)>>
                             \o utf8_decode_replace(SubSeq(bs, 4, n))
                ELSE <<REPLACEMENT>> \o utf8_decode_replace(SubSeq(bs, 3, n))
        ELSE <<REPLACEMENT>> \o utf8_decode_replace(Tail(bs))

\* str.encode('utf-8') for code points of the basic plane
RECURSIVE utf8_encode(_)
utf8_encode(cps) ==
    IF cps = <<>> THEN <<>>
    ELSE
    LET c == cps[1]
        enc == IF c < 128 THEN <<c>>
               ELSE IF c < 2048 THEN <<192 + (c \div 64), 128 + (c % 64)>>
               ELSE <<224 + (c \div 4096), 128 + ((c \div 64) % 64), 128 + (c % 64)>>
    IN  enc \o utf8_encode(Tail(cps))

PAD == 64                  \* '='

\* base64.b64encode(content).decode('ascii')
RECURSIVE b64encode(_)
b64encode(bs) ==
    IF bs = <<>> THEN <<>>
    ELSE IF Len(bs) = 1 THEN
        <<bs[1] \div 4, (bs[1] % 4) * 16, PAD, PAD>>
    ELSE IF Len(bs) = 2 THEN
        <<bs[1] \div 4, (bs[1] % 4) * 16 + (bs[2] \div 16), (bs[2] % 16) * 4, PAD>>
    ELSE
        <<bs[1] \div 4, (bs[1] % 4) * 16 + (bs[2] \div 16),
          (bs[2] % 16) * 4 + (bs[3] \div 64), bs[3] % 64>>
            \o b64encode(SubSeq(bs, 4, Len(bs)))

\* base64.b64decode(body) on well-formed base64 text
RECURSIVE b64decode(_)
b64decode(cs) ==
    IF Len(cs) < 4 THEN <<>>
    ELSE
    LET b1 == cs[1] * 4 + (cs[2] \div 16)
        grp == IF cs[3] = PAD THEN <<b1>>
               ELSE IF cs[4] = PAD
                   THEN <<b1, (cs[2] % 16) * 16 + (cs[3] \div 4)>>
               ELSE <<b1, (cs[2] % 16) * 16 + (cs[3] \div 4), (cs[3] % 4) * 64 + cs[4]>>
    IN  grp \o b64decode(SubSeq(cs, 5, Len(cs)))

----------------------------------------------------------------------------
(* InMemoryCache: an OrderedDict, least recently used first *)

NoEntry == [status_code |-> 0, url |-> "", headers |-> EmptyDict,
            body |-> <<>>, timestamp |-> 0]

InMemoryCache(max_size, default_ttl) ==
    [max_size |-> max_size, default_ttl |-> default_ttl, cache |-> <<>>]

IndexOf(c, key) ==
    IF \E i \in 1..Len(c) : c[i].key = key
        THEN CHOOSE i \in 1..Len(c) : c[i].key = key
        ELSE 0

RemoveAt(c, i) == SubSeq(c, 1, i - 1) \o SubSeq(c, i + 1, Len(c))

\* a get that returns the value without marking the key as used
mem_get_peek(b, key, t) ==
    LET i == IndexOf(b.cache, key)
    IN  IF i = 0 THEN [b |-> b, hit |-> FALSE, value |-> NoEntry]
        ELSE IF b.cache[i].expiry # Infinity /\ t > b.cache[i].expiry
            THEN [b |-> [b EXCEPT !.cache = RemoveAt(@, i)],
                  hit |-> FALSE, value |-> NoEntry]
        ELSE [b |-> b, hit |-> TRUE, value |-> b.cache[i].value]

\* a set that ignores the per-call ttl
mem_set_default_only(b, key, value, ttl, t) ==
    LET expiry == IF b.default_ttl # NoTTL THEN t + b.default_ttl ELSE Infinity
        i == IndexOf(b.cache, key)
        rest == IF i = 0 THEN b.cache ELSE RemoveAt(b.cache, i)
        put == Append(rest, [key |-> key, value |-> value, expiry |-> expiry])
    IN  [b EXCEPT !.cache = IF Len(put) > b.max_size THEN Tail(put) ELSE put]

\* a set that never evicts
mem_set_noevict(b, key, value, ttl, t) ==
    LET i == IndexOf(b.cache, key)
        rest == IF i = 0 THEN b.cache ELSE RemoveAt(b.cache, i)
    IN  [b EXCEPT !.cache = Append(rest, [key |-> key, value |-> value,
                                          expiry |-> Infinity])]

\* InMemoryCache.get
mem_get(b, key, t) ==
    LET i == IndexOf(b.cache, key)
    IN  IF i = 0 THEN [b |-> b, hit |-> FALSE, value |-> NoEntry]
        ELSE IF b.cache[i].expiry # Infinity /\ t > b.cache[i].expiry
            THEN [b |-> [b EXCEPT !.cache = RemoveAt(@, i)],
                  hit |-> FALSE, value |-> NoEntry]
        ELSE [b |-> [b EXCEPT !.cache = Append(RemoveAt(@, i), b.cache[i])],
              hit |-> TRUE, value |-> b.cache[i].value]

\* InMemoryCache.set
mem_set(b, key, value, ttl, t) ==
    LET ttl_val == IF ttl # NoTTL THEN ttl ELSE b.default_ttl
        expiry == IF ttl_val # NoTTL THEN t + ttl_val ELSE Infinity
        i == IndexOf(b.cache, key)
        rest == IF i = 0 THEN b.cache ELSE RemoveAt(b.cache, i)
        put == Append(rest, [key |-> key, value |-> value, expiry |-> expiry])
    IN  [b EXCEPT !.cache = IF Len(put) > b.max_size THEN Tail(put) ELSE put]

\* InMemoryCache.delete
mem_delete(b, key) ==
    LET i == IndexOf(b.cache, key)
    IN  IF i = 0 THEN b ELSE [b EXCEPT !.cache = RemoveAt(@, i)]

\* InMemoryCache.clear
mem_clear(b) == [b EXCEPT !.cache = <<>>]

\* what a backend holds for a key, without touching its recency
Holds(b, key) == IndexOf(b.cache, key) # 0
Held(b, key) == b.cache[IndexOf(b.cache, key)].value

----------------------------------------------------------------------------
(* ChaosBackend: which operations of which backends raise during a call *)

NoFault == [get |-> {}, set |-> {}, delete |-> {}]

----------------------------------------------------------------------------
(* Tier coordination.  s = [bs, ops, found, idx]: the tier list, the        *)
(* backend operations performed so far in the call, as <<op, index,        *)
(* result>>, and the locals cache_entry and found_in_index + 1 (0: none).  *)
(* swallow is TRUE where the loop body sits in try/except (the async       *)
(* wrappers) and FALSE where it does not (HTTPCache).                      *)

Begin(bs) == [bs |-> bs, ops |-> <<>>, found |-> NoEntry, idx |-> 0]
Op(s, op, i, res) == Append(s.ops, <<op, i, res>>)

\* a lookup that prefers the farthest backend holding the key
TierLookup_farthest(s, key, i, f, t, swallow) ==
    LET held == {m \in i..Len(s.bs) : Holds(s.bs[m], key)}
    IN  IF held = {}
            THEN [s |-> s, hit |-> FALSE, entry |-> NoEntry, idx |-> 0, raised |-> FALSE]
        ELSE
        LET m == CHOOSE x \in held : \A y \in held : y <= x
            e == Held(s.bs[m], key)
        IN  [s |-> [s EXCEPT !.ops = Op(s, "get", m, "hit"), !.found = e, !.idx = m],
             hit |-> TRUE, entry |-> e, idx |-> m, raised |-> FALSE]

RECURSIVE TierLookup(_, _, _, _, _, _)
TierLookup(s, key, i, f, t, swallow) ==
    IF i > Len(s.bs)
        THEN [s |-> s, hit |-> FALSE, entry |-> NoEntry, idx |-> 0, raised |-> FALSE]
    ELSE IF i \in f.get THEN
        LET s1 == [s EXCEPT !.ops = Op(s, "get", i, "raise")]
        IN  IF swallow THEN TierLookup(s1, key, i + 1, f, t, swallow)
            ELSE [s |-> s1, hit |-> FALSE, entry |-> NoEntry, idx |-> 0, raised |-> TRUE]
    ELSE
        LET r == mem_get(s.bs[i], key, t)
            s1 == [s EXCEPT !.bs = [s.bs EXCEPT ![i] = r.b],
                            !.ops = Op(s, "get", i, IF r.hit THEN "hit" ELSE "miss")]
        IN  IF r.hit
                THEN [s |-> [s1 EXCEPT !.found = r.value, !.idx = i],
                      hit |-> TRUE, entry |-> r.value, idx |-> i, raised |-> FALSE]
                ELSE TierLookup(s1, key, i + 1, f, t, swallow)

\* a fan-out that stops after the first backend of the range
TierSet_first(s, key, entry, i, hi, f, t, swallow) ==
    IF i > hi THEN [s |-> s, raised |-> FALSE]
    ELSE IF i \in f.set THEN
        [s |-> [s EXCEPT !.ops = Op(s, "set", i, "raise")], raised |-> ~swallow]
    ELSE
        [s |-> [s EXCEPT !.bs = [s.bs EXCEPT ![i] = mem_set(@, key, entry, NoTTL, t)],
                         !.ops = Op(s, "set", i, "ok")],
         raised |-> FALSE]

\* for backend in backends[i-1 : hi]: backend.set(key, entry)
RECURSIVE TierSet(_, _, _, _, _, _, _, _)
TierSet(s, key, entry, i, hi, f, t, swallow) ==
    IF i > hi THEN [s |-> s, raised |-> FALSE]
    ELSE IF i \in f.set THEN
        LET s1 == [s EXCEPT !.ops = Op(s, "set", i, "raise")]
        IN  IF swallow THEN TierSet(s1, key, entry, i + 1, hi, f, t, swallow)
            ELSE [s |-> s1, raised |-> TRUE]
    ELSE
        TierSet([s EXCEPT !.bs = [s.bs EXCEPT ![i] = mem_set(@, key, entry, NoTTL, t)],
                          !.ops = Op(s, "set", i, "ok")],
                key, entry, i + 1, hi, f, t, swallow)

\* a lookup without read repair
ReadRepair_none(lk, key, f, t, swallow) == [s |-> lk.s, raised |-> FALSE]

\* a read repair that sets the found entry into every tier
ReadRepair_all(lk, key, f, t, swallow) ==
    IF lk.hit THEN TierSet(lk.s, key, lk.entry, 1, Len(lk.s.bs), f, t, swallow)
    ELSE [s |-> lk.s, raised |-> FALSE]

\* a no-store test that never finds the directive
NoStore_never(resp_cc) == FALSE

\* read repair: the entry found at tier idx is set into the tiers before it
ReadRepair(lk, key, f, t, swallow) ==
    IF lk.hit /\ lk.idx > 1
        THEN TierSet(lk.s, key, lk.entry, 1, lk.idx - 1, f, t, swallow)
        ELSE [s |-> lk.s, raised |-> FALSE]

\* "no-store" not in resp_cc
NoStore(resp_cc) == "no-store" \in DOMAIN resp_cc

\* an invalidation for every status outside the cacheable set, 304 included
Invalidates_uncacheable(status_code, cacheable_status_codes) ==
    status_code \notin cacheable_status_codes

\* resp.status_code != 304 and resp.status_code not in cacheable_status_codes
Invalidates(status_code, cacheable_status_codes) ==
    status_code # NOT_MODIFIED /\ status_code \notin cacheable_status_codes

\* an invalidation that deletes nothing
TierDelete_none(s, key, i, f, swallow) == [s |-> s, raised |-> FALSE]

\* for backend in backends: backend.delete(key)
RECURSIVE TierDelete(_, _, _, _, _)
TierDelete(s, key, i, f, swallow) ==
    IF i > Len(s.bs) THEN [s |-> s, raised |-> FALSE]
    ELSE IF i \in f.delete THEN
        LET s1 == [s EXCEPT !.ops = Op(s, "delete", i, "raise")]
        IN  IF swallow THEN TierDelete(s1, key, i + 1, f, swallow)
            ELSE [s |-> s1, raised |-> TRUE]
    ELSE
        TierDelete([s EXCEPT !.bs = [s.bs EXCEPT ![i] = mem_delete(@, key)],
                             !.ops = Op(s, "delete", i, "ok")],
                   key, i + 1, f, swallow)

----------------------------------------------------------------------------
(* Requests, responses, outcomes *)

Request(method, url, headers) == [method |-> method, url |-> url, headers |-> headers]
Response(status_code, url, headers, content) ==
    [status_code |-> status_code, url |-> url, headers |-> headers, content |-> content]
NoResponse == Response(0, "", EmptyDict, <<>>)

\* _cache_keys: hashlib.md5(request_url.encode()).hexdigest(), a digest of
\* the URL alone, taken to be collision-free
cache_keys(request_url) == <<"md5", request_url>>

\* the call returned `resp`; sent = 1 when the wrapped transport was called,
\* fwd = the headers of the request handed to it, cached = TRUE when the
\* object returned is the response rebuilt from the cache
Return(s, resp, sent, fwd, cached) ==
    [bs |-> s.bs, ops |-> s.ops, found |-> s.found, idx |-> s.idx,
     kind |-> "response", exc |-> "", resp |-> resp,
     sent |-> sent, fwd |-> fwd, cached |-> cached]

\* the call raised `exc`
Raise(s, exc, sent, fwd) ==
    [bs |-> s.bs, ops |-> s.ops, found |-> s.found, idx |-> s.idx,
     kind |-> "raise", exc |-> exc, resp |-> NoResponse,
     sent |-> sent, fwd |-> fwd, cached |-> FALSE]

NoLookup(s) == [s |-> s, hit |-> FALSE, entry |-> NoEntry, idx |-> 0, raised |-> FALSE]
Skip(s) == [s |-> s, raised |-> FALSE]

\* an except clause that catches whatever is raised
ExceptException_bare(exc) == TRUE

\* `except Exception:` catches exc.  asyncio.CancelledError derives from
\* BaseException, so the clause lets it through.
ExceptException(exc) == exc # "CancelledError"

\* requests.Response.__bool__ is Response.ok: no 4xx / 5xx status
ResponseOk(resp) == ~(400 <= resp.status_code /\ resp.status_code < 600)

----------------------------------------------------------------------------
(* HTTPCache (requests.Session subclass), synchronous *)

\* HTTPCache._serialize_response
HTTPCache_serialize_response(resp, t) ==
    [status_code |-> resp.status_code,
     url |-> resp.url,
     headers |-> resp.headers,
     body |-> IF resp.content # <<>> THEN utf8_decode_replace(resp.content) ELSE <<>>,
     timestamp |-> t]

\* HTTPCache._build_response_from_cache
HTTPCache_build_response_from_cache(entry) ==
    Response(entry.status_code, entry.url, entry.headers, utf8_encode(entry.body))

\* HTTPCache.__init__(self, backends): there is no other parameter
HTTPCache_init(codesArg) ==
    IF codesArg = {} THEN [ctor |-> "ok", codes |-> {OK}]
    ELSE [ctor |-> "TypeError", codes |-> {}]

\* HTTPCache.send
HTTPCache_send(bs, request, tr, f, t) ==
    LET cached_key == cache_keys(request.url)
        cachable == request.method \in {"GET", "HEAD"}
                        /\ ~CIHas(request.headers, "range")
        s0 == Begin(bs)
        lk == IF cachable THEN TierLookup(s0, cached_key, 1, f, t, FALSE)
              ELSE NoLookup(s0)
    IN
    IF lk.raised THEN Raise(lk.s, "BackendError", 0, EmptyDict)
    ELSE
    LET rr == ReadRepair(lk, cached_key, f, t, FALSE)
    IN
    IF rr.raised THEN Raise(rr.s, "BackendError", 0, EmptyDict)
    ELSE
    LET built == HTTPCache_build_response_from_cache(lk.entry)
        cache_resp == [built EXCEPT !.headers = CIPut(@, X_CACHE, X_FROM_CACHE)]
        have == lk.hit /\ ResponseOk(cache_resp)
        freshness == IF have
                         THEN HTTPCache_check_freshness(request.headers, cache_resp.headers, t)
                         ELSE STALE
    IN
    IF have /\ freshness = FRESH THEN Return(rr.s, cache_resp, 0, EmptyDict, TRUE)
    ELSE IF have /\ freshness = VALUE_ERROR THEN Raise(rr.s, "ValueError", 0, EmptyDict)
    ELSE
    LET h1 == IF have /\ CIHas(cache_resp.headers, "etag")
                  THEN CIPut(request.headers, "if-none-matched",
                             CIGet(cache_resp.headers, "etag"))
                  ELSE request.headers
        fwd == IF have /\ CIHas(cache_resp.headers, "last-modified")
                  THEN CIPut(h1, "if-modified-since",
                             CIGet(cache_resp.headers, "last-modified"))
                  ELSE h1
    IN
    IF tr.raises THEN Raise(rr.s, tr.exc, 1, fwd)
    ELSE
    LET resp == Response(tr.status_code, request.url, tr.headers, tr.content)
    IN
    IF resp.status_code = NOT_MODIFIED /\ have THEN
        LET merged == [cache_resp EXCEPT !.headers = CIUpdate(@, resp.headers)]
            new_entry == HTTPCache_serialize_response(merged, t)
            w == TierSet(rr.s, cached_key, new_entry, 1, Len(bs), f, t, FALSE)
        IN  IF w.raised THEN Raise(w.s, "BackendError", 1, fwd)
            ELSE Return(w.s,
                        [merged EXCEPT !.headers = CIPut(@, X_CACHE, X_FROM_CACHE)],
                        1, fwd, TRUE)
    ELSE IF resp.status_code >= 500 /\ have
                /\ HTTPCache_stale_error_check(cache_resp.headers, t) THEN
        Return(rr.s,
               [cache_resp EXCEPT !.headers = CIPut(@, "Stale-Warning", STALE_WARNING)],
               1, fwd, TRUE)
    ELSE
    LET storable == cachable /\ resp.status_code = OK
                        /\ ~NoStore(HTTPCache_parse_cache_control(resp.headers))
        resp1 == IF storable
                     THEN [resp EXCEPT !.headers = CIPut(@, X_CACHE, X_NOT_FROM_CACHE)]
                     ELSE resp
        w == IF storable
                 THEN TierSet(rr.s, cached_key, HTTPCache_serialize_response(resp1, t),
                              1, Len(bs), f, t, FALSE)
                 ELSE Skip(rr.s)
    IN
    IF w.raised THEN Raise(w.s, "BackendError", 1, fwd)
    ELSE
    LET d == IF Invalidates(resp.status_code, {OK})
                 THEN TierDelete(w.s, cached_key, 1, f, FALSE)
                 ELSE Skip(w.s)
    IN  IF d.raised THEN Raise(d.s, "BackendError", 1, fwd)
        ELSE Return(d.s, resp1, 1, fwd, FALSE)

----------------------------------------------------------------------------
(* HttpxCacheClient, asynchronous.  httpx.Headers is case-insensitive and  *)
(* yields lower-cased keys.                                                *)

\* HttpxCacheClient._serialize_response
Httpx_serialize_response(resp, t) ==
    [status_code |-> resp.status_code,
     url |-> resp.url,
     headers |-> LowerKeys(resp.headers),
     body |-> b64encode(resp.content),
     timestamp |-> t]

\* a rebuilt response that drops the stored body
Httpx_build_response_nobody(entry, req) ==
    Response(entry.status_code, req.url, LowerKeys(entry.headers), <<>>)

\* a rebuilt response that does not take its status from the entry
Httpx_build_response_nostatus(entry, req) ==
    Response(NOT_MODIFIED, req.url, LowerKeys(entry.headers),
             IF entry.body # <<>> THEN b64decode(entry.body) ELSE <<>>)

\* HttpxCacheClient._build_response
Httpx_build_response(entry, req) ==
    Response(entry.status_code, req.url, LowerKeys(entry.headers),
             IF entry.body # <<>> THEN b64decode(entry.body) ELSE <<>>)

\* HttpxCacheClient.__init__(backends, cacheable_status_codes=(200,), **kwargs)
Httpx_init(codesArg) ==
    [ctor |-> "ok", codes |-> IF codesArg = {} THEN {OK} ELSE codesArg]

\* HttpxCacheClient.request
Httpx_request(bs, cacheable_status_codes, request, tr, f, t) ==
    LET req == [request EXCEPT !.headers = LowerKeys(@)]
        cachable == req.method \in {"GET", "HEAD"} /\ ~CIHas(req.headers, "range")
        cached_key == cache_keys(req.url)
        s0 == Begin(bs)
        lk == IF cachable THEN TierLookup(s0, cached_key, 1, f, t, TRUE)
              ELSE NoLookup(s0)
        rr == ReadRepair(lk, cached_key, f, t, TRUE)
        built == Httpx_build_response(lk.entry, req)
        cache_resp == [built EXCEPT !.headers = CIPut(@, Lower(X_CACHE), X_FROM_CACHE)]
        have == lk.hit
        freshness == IF have
                         THEN check_freshness(LowerKeys(req.headers),
                                              LowerKeys(cache_resp.headers), t)
                         ELSE STALE
    IN
    IF have /\ freshness = FRESH THEN Return(rr.s, cache_resp, 0, EmptyDict, TRUE)
    ELSE IF have /\ freshness = VALUE_ERROR THEN Raise(rr.s, "ValueError", 0, EmptyDict)
    ELSE
    LET h1 == IF have /\ CIHas(cache_resp.headers, "etag")
                  THEN CIPut(req.headers, "if-none-matched",
                             CIGet(cache_resp.headers, "etag"))
                  ELSE req.headers
        fwd == IF have /\ CIHas(cache_resp.headers, "last-modified")
                  THEN CIPut(h1, "if-modified-since",
                             CIGet(cache_resp.headers, "last-modified"))
                  ELSE h1
    IN
    IF tr.raises THEN
        IF ExceptException(tr.exc) /\ have
                /\ check_stale_if_error(LowerKeys(cache_resp.headers), t)
            THEN Return(rr.s,
                        [cache_resp EXCEPT
                            !.headers = CIPut(@, Lower("Stale-Warning"), STALE_WARNING)],
                        1, fwd, TRUE)
            ELSE Raise(rr.s, tr.exc, 1, fwd)
    ELSE
    LET resp == Response(tr.status_code, req.url, LowerKeys(tr.headers), tr.content)
    IN
    IF resp.status_code = NOT_MODIFIED /\ have THEN
        LET merged == [cache_resp EXCEPT !.headers = CIUpdate(@, resp.headers)]
            new_entry == Httpx_serialize_response(merged, t)
            w == TierSet(rr.s, cached_key, new_entry, 1, Len(bs), f, t, TRUE)
        IN  Return(w.s,
                   [merged EXCEPT !.headers = CIPut(@, Lower(X_CACHE), X_FROM_CACHE)],
                   1, fwd, TRUE)
    ELSE IF resp.status_code >= 500 /\ have
                /\ check_stale_if_error(LowerKeys(cache_resp.headers), t) THEN
        Return(rr.s,
               [cache_resp EXCEPT
                   !.headers = CIPut(@, Lower("Stale-Warning"), STALE_WARNING)],
               1, fwd, TRUE)
    ELSE
    LET storable == cachable /\ resp.status_code \in cacheable_status_codes
                        /\ ~NoStore(parse_cache_control(LowerKeys(resp.headers)))
        resp1 == IF storable
                     THEN [resp EXCEPT !.headers = CIPut(@, Lower(X_CACHE), X_NOT_FROM_CACHE)]
                     ELSE resp
        w == IF storable
                 THEN TierSet(rr.s, cached_key, Httpx_serialize_response(resp1, t),
                              1, Len(bs), f, t, TRUE)
                 ELSE Skip(rr.s)
        d == IF Invalidates(resp.status_code, cacheable_status_codes)
                 THEN TierDelete(w.s, cached_key, 1, f, TRUE)
                 ELSE Skip(w.s)
    IN  Return(d.s, resp1, 1, fwd, FALSE)

----------------------------------------------------------------------------
(* AiohttpCacheSession, asynchronous.  Request headers are the caller's    *)
(* plain dict; response headers are a CIMultiDict, which keeps the case    *)
(* of its keys.                                                            *)

\* AiohttpCacheSession._serialize_response
Aiohttp_serialize_response(resp, t) ==
    [status_code |-> resp.status_code,
     url |-> resp.url,
     headers |-> resp.headers,
     body |-> IF resp.content # <<>> THEN b64encode(resp.content) ELSE <<>>,
     timestamp |-> t]

\* CachedAiohttpResponse.__init__
CachedAiohttpResponse(entry, url) ==
    Response(entry.status_code, url, entry.headers,
             IF entry.body # <<>> THEN b64decode(entry.body) ELSE <<>>)

\* AiohttpCacheSession.__init__(backends, cacheable_status_codes=(200,), **kwargs)
Aiohttp_init(codesArg) ==
    [ctor |-> "ok", codes |-> IF codesArg = {} THEN {OK} ELSE codesArg]

\* AiohttpCacheSession._request
Aiohttp_request(bs, cacheable_status_codes, request, tr, f, t) ==
    LET headers == request.headers
        cachable == request.method \in {"GET", "HEAD"} /\ ~DictHas(headers, "range")
        cached_key == cache_keys(request.url)
        s0 == Begin(bs)
        lk == IF cachable THEN TierLookup(s0, cached_key, 1, f, t, TRUE)
              ELSE NoLookup(s0)
        rr == ReadRepair(lk, cached_key, f, t, TRUE)
        built == CachedAiohttpResponse(lk.entry, request.url)
        cache_resp == [built EXCEPT !.headers = CIPut(@, X_CACHE, X_FROM_CACHE)]
        have == lk.hit
        freshness == IF have THEN check_freshness(headers, cache_resp.headers, t)
                     ELSE STALE
    IN
    IF have /\ freshness = FRESH THEN Return(rr.s, cache_resp, 0, EmptyDict, TRUE)
    ELSE IF have /\ freshness = VALUE_ERROR THEN Raise(rr.s, "ValueError", 0, EmptyDict)
    ELSE
    LET h1 == IF have /\ CIHas(cache_resp.headers, "etag")
                  THEN DictPut(headers, "if-none-matched",
                               CIGet(cache_resp.headers, "etag"))
                  ELSE headers
        fwd == IF have /\ CIHas(cache_resp.headers, "last-modified")
                  THEN DictPut(h1, "if-modified-since",
                               CIGet(cache_resp.headers, "last-modified"))
                  ELSE h1
    IN
    IF tr.raises THEN Raise(rr.s, tr.exc, 1, fwd)
    ELSE
    LET resp == Response(tr.status_code, request.url, tr.headers, tr.content)
    IN
    IF resp.status_code = NOT_MODIFIED /\ have THEN
        LET merged == [cache_resp EXCEPT !.headers = CIUpdate(@, resp.headers)]
            entry == Aiohttp_serialize_response(merged, t)
            w == TierSet(rr.s, cached_key, entry, 1, Len(bs), f, t, TRUE)
        IN  Return(w.s,
                   [merged EXCEPT !.headers = CIPut(@, X_CACHE, X_FROM_CACHE)],
                   1, fwd, TRUE)
    ELSE
    LET storable == cachable /\ resp.status_code \in cacheable_status_codes
                        /\ ~NoStore(parse_cache_control(resp.headers))
        w == IF storable
                 THEN TierSet(rr.s, cached_key, Aiohttp_serialize_response(resp, t),
                              1, Len(bs), f, t, TRUE)
                 ELSE Skip(rr.s)
        resp1 == IF storable
                     THEN [resp EXCEPT !.headers = CIPut(@, X_CACHE, X_NOT_FROM_CACHE)]
                     ELSE resp
        d == IF Invalidates(resp.status_code, cacheable_status_codes)
                 THEN TierDelete(w.s, cached_key, 1, f, TRUE)
                 ELSE Skip(w.s)
    IN  Return(d.s, resp1, 1, fwd, FALSE)

----------------------------------------------------------------------------
(* Environment: what callers ask, what the origin answers, what fails *)

Impls == {"HTTPCache", "Httpx", "Aiohttp"}

\* cacheable_status_codes as passed to the constructor; {} = not passed
CodesArgs == {{}, {200, 404}}

\* HTTPCache(backends=[memory_backend, disk_backend]): two tiers, nearest first
Tiers == <<InMemoryCache(DefaultMaxSize, NoTTL), InMemoryCache(DefaultMaxSize, NoTTL)>>

Url == "https://example.com/api"


PlainGet == Request("GET", Url, EmptyDict)
PlainHead == Request("HEAD", Url, EmptyDict)
Post == Request("POST", Url, EmptyDict)
RangeGet == Request("GET", Url, [x \in {"Range"} |-> "bytes=0-1"])
NoCacheGet == Request("GET", Url, [x \in {"Cache-Control"} |-> <<Bare("no-cache")>>])
\* a conditional request of the caller's own, asking for more remaining
\* freshness than any entry has
MinFreshGet ==
    Request("GET", Url,
            [x \in {"Cache-Control", "If-None-Match", "If-Modified-Since"} |->
                CASE x = "Cache-Control" -> <<IntVal("min-fresh", 3)>>
                  [] x = "If-None-Match" -> "v0"
                  [] OTHER -> "d0"])

Transport(raises, status_code, headers, content) ==
    [raises |-> raises, exc |-> IF raises THEN "TransportError" ELSE "",
     status_code |-> status_code, headers |-> headers, content |-> content]

\* the wrapped transport raises
TransportFails == Transport(TRUE, 0, EmptyDict, <<>>)

\* the call is cancelled while it awaits the transport send:
\* asyncio.CancelledError is raised at the await
TransportCancelled == [TransportFails EXCEPT !.exc = "CancelledError"]

\* the origin's answers at instant t
Ok200(t) ==
    Transport(FALSE, 200,
              [x \in {"Cache-Control", "Date", "ETag", "Last-Modified", "X-Old"} |->
                  CASE x = "Cache-Control" -> <<IntVal("max-age", 2)>>
                    [] x = "Date" -> t
                    [] x = "ETag" -> "v1"
                    [] x = "Last-Modified" -> "d1"
                    [] OTHER -> "1"],
              <<65>>)
Gzip200 ==
    Transport(FALSE, 200, [x \in {"Cache-Control"} |-> <<IntVal("max-age", 2)>>],
              <<31, 139>>)
NoStore200(t) ==
    Transport(FALSE, 200,
              [x \in {"Cache-Control", "Date"} |->
                  IF x = "Date" THEN t ELSE <<Bare("no-store")>>],
              <<65>>)
StaleIfError200(t) ==
    Transport(FALSE, 200,
              [x \in {"Cache-Control", "Date"} |->
                  IF x = "Date" THEN t
                  ELSE <<IntVal("max-age", 0), IntVal("stale-if-error", 1)>>],
              <<65>>)
NotModified304 == Transport(FALSE, 304, [x \in {"X-New"} |-> "2"], <<>>)
NotFound404(t) ==
    Transport(FALSE, 404,
              [x \in {"Cache-Control", "Date"} |->
                  IF x = "Date" THEN t ELSE <<IntVal("max-age", 2)>>],
              <<78>>)
Unavailable503 == Transport(FALSE, 503, EmptyDict, <<88>>)

\* the exchanges explored: a request and what the transport does with it
Exchanges(t) ==
    ({PlainGet} \X {TransportFails, Ok200(t), Gzip200, NoStore200(t), StaleIfError200(t),
                    NotModified304, NotFound404(t), Unavailable503})
    \cup ({PlainHead} \X {Ok200(t), NotModified304})
    \cup ({Post} \X {Ok200(t), NotFound404(t), Unavailable503})
    \cup ({RangeGet} \X {Ok200(t), NotModified304})
    \cup ({NoCacheGet} \X {TransportFails, TransportCancelled, Ok200(t), NotModified304,
                         Unavailable503})
    \cup ({MinFreshGet} \X {Ok200(t)})

\* the exchanges explored when the backends are wrapped in ChaosBackend
ChaosExchanges(t) ==
    ({PlainGet} \X {TransportFails, Ok200(t), StaleIfError200(t), NotModified304,
                    NotFound404(t), Unavailable503})
    \cup ({Post} \X {NotFound404(t)})

\* ChaosBackend._maybe_fail: which operations raise during one call
FaultPatterns ==
    { NoFault,
      [get |-> {1}, set |-> {}, delete |-> {}],
      [get |-> {}, set |-> {1}, delete |-> {1}],
      [get |-> {}, set |-> {2}, delete |-> {2}],
      [get |-> {1, 2}, set |-> {1, 2}, delete |-> {1, 2}] }

Faults == IF chaos THEN FaultPatterns ELSE {NoFault}
Menu(t) == IF chaos THEN ChaosExchanges(t) ELSE Exchanges(t)

----------------------------------------------------------------------------
(* State machine *)

NoCall ==
    [request |-> Request("", "", EmptyDict),
     tr |-> Transport(FALSE, 0, EmptyDict, <<>>),
     f |-> NoFault, t |-> 0, kind |-> "none", exc |-> "", resp |-> NoResponse,
     sent |-> 0, fwd |-> EmptyDict, cached |-> FALSE, ops |-> <<>>,
     found |-> NoEntry, idx |-> 0]

CodecOff == [phase |-> "off", content |-> <<>>, body |-> <<>>, rebuilt |-> <<>>]

\* the parts of the state that a specification does not exercise
MemOff == [on |-> FALSE]
ThrOff == [on |-> FALSE]
TasksOff == [on |-> FALSE]
PairOff == [on |-> FALSE]
DecOff == [on |-> FALSE]
Idle == mem = MemOff /\ thr = ThrOff /\ tasks = TasksOff /\ pair = PairOff /\ dec = DecOff

\* the constructor call of integration i
Construct(i, codesArg) ==
    CASE i = "HTTPCache" -> HTTPCache_init(codesArg)
      [] i = "Httpx" -> Httpx_init(codesArg)
      [] OTHER -> Aiohttp_init(codesArg)

InitWith(c) ==
    /\ \E i \in Impls, a \in CodesArgs :
          /\ impl = i
          /\ ctor = Construct(i, a).ctor
          /\ codes = Construct(i, a).codes
    /\ chaos = c
    /\ backends = Tiers
    /\ now = 0
    /\ last = NoCall
    /\ calls = 0
    /\ sends = 0
    /\ cleared = FALSE
    /\ codec = CodecOff
    /\ Idle

Init == InitWith(FALSE)
InitChaos == InitWith(TRUE)

\* bookkeeping of one completed call
Record(request, tr, f, out) ==
    /\ backends' = out.bs
    /\ last' = [request |-> request, tr |-> tr, f |-> f, t |-> now,
                kind |-> out.kind, exc |-> out.exc, resp |-> out.resp,
                sent |-> out.sent, fwd |-> out.fwd, cached |-> out.cached,
                ops |-> out.ops, found |-> out.found, idx |-> out.idx]
    /\ calls' = calls + 1
    /\ sends' = sends + out.sent
    /\ cleared' = FALSE
    /\ UNCHANGED <<impl, ctor, codes, chaos, now, codec, mem, thr, tasks, pair, dec>>

HTTPCacheSend ==
    /\ impl = "HTTPCache" /\ ctor = "ok" /\ calls < MaxCalls
    /\ \E x \in Menu(now), f \in Faults :
          Record(x[1], x[2], f, HTTPCache_send(backends, x[1], x[2], f, now))

HttpxRequest ==
    /\ impl = "Httpx" /\ ctor = "ok" /\ calls < MaxCalls
    /\ \E x \in Menu(now), f \in Faults :
          Record(x[1], x[2], f, Httpx_request(backends, codes, x[1], x[2], f, now))

AiohttpRequest ==
    /\ impl = "Aiohttp" /\ ctor = "ok" /\ calls < MaxCalls
    /\ \E x \in Menu(now), f \in Faults :
          Record(x[1], x[2], f, Aiohttp_request(backends, codes, x[1], x[2], f, now))

\* time passes
Tick ==
    /\ now < MaxTime /\ calls < MaxCalls
    /\ now' = now + 1
    /\ UNCHANGED <<impl, ctor, codes, chaos, backends, last, calls, sends, cleared, codec,
                   mem, thr, tasks, pair, dec>>

\* the application empties one tier (memory_backend.clear())
Clear ==
    /\ ctor = "ok" /\ calls < MaxCalls
    /\ \E i \in 1..Len(backends) :
          /\ backends[i].cache # <<>>
          /\ backends' = [backends EXCEPT ![i] = mem_clear(@)]
    /\ cleared' = TRUE
    /\ UNCHANGED <<impl, ctor, codes, chaos, now, last, calls, sends, codec,
                   mem, thr, tasks, pair, dec>>

Next == HTTPCacheSend \/ HttpxRequest \/ AiohttpRequest \/ Tick \/ Clear

Spec == Init /\ [][Next]_vars
SpecChaos == InitChaos /\ [][Next]_vars

----------------------------------------------------------------------------
(* Serialisation round trip of one body, per integration *)

ByteAlphabet == {0, 8, 31, 65, 139, 169, 195}

InitCodec ==
    /\ \E i \in Impls :
          /\ impl = i
          /\ ctor = Construct(i, {}).ctor
          /\ codes = Construct(i, {}).codes
    /\ chaos = FALSE
    /\ backends = Tiers
    /\ now = 0
    /\ last = NoCall
    /\ calls = 0
    /\ sends = 0
    /\ cleared = FALSE
    /\ codec = [phase |-> "input", content |-> <<>>, body |-> <<>>, rebuilt |-> <<>>]
    /\ Idle

\* the origin's body grows by one byte
CodecAppend ==
    /\ codec.phase = "input" /\ Len(codec.content) < MaxBodyLen
    /\ \E b \in ByteAlphabet : codec' = [codec EXCEPT !.content = Append(@, b)]
    /\ UNCHANGED <<impl, ctor, codes, chaos, backends, now, last, calls, sends, cleared,
                   mem, thr, tasks, pair, dec>>

\* _serialize_response of a response with that body
CodecSerialize ==
    /\ codec.phase = "input"
    /\ LET resp == Response(200, Url, EmptyDict, codec.content)
           entry == CASE impl = "HTTPCache" -> HTTPCache_serialize_response(resp, now)
                      [] impl = "Httpx" -> Httpx_serialize_response(resp, now)
                      [] OTHER -> Aiohttp_serialize_response(resp, now)
       IN  codec' = [codec EXCEPT !.phase = "stored", !.body = entry.body]
    /\ UNCHANGED <<impl, ctor, codes, chaos, backends, now, last, calls, sends, cleared,
                   mem, thr, tasks, pair, dec>>

\* the response rebuilt from the stored entry
CodecBuild ==
    /\ codec.phase = "stored"
    /\ LET entry == [NoEntry EXCEPT !.status_code = 200, !.url = Url, !.body = codec.body]
           resp == CASE impl = "HTTPCache" -> HTTPCache_build_response_from_cache(entry)
                     [] impl = "Httpx" -> Httpx_build_response(entry, PlainGet)
                     [] OTHER -> CachedAiohttpResponse(entry, Url)
       IN  codec' = [codec EXCEPT !.phase = "built", !.rebuilt = resp.content]
    /\ UNCHANGED <<impl, ctor, codes, chaos, backends, now, last, calls, sends, cleared,
                   mem, thr, tasks, pair, dec>>

NextCodec == CodecAppend \/ CodecSerialize \/ CodecBuild

SpecCodec == InitCodec /\ [][NextCodec]_vars

----------------------------------------------------------------------------
(* Vocabulary of the properties *)

Key == cache_keys(Url)

\* a step that is one call through send/request
IsCall == calls' = calls + 1

\* cacheable request: GET or HEAD, no Range header
Cacheable(request) ==
    request.method \in {"GET", "HEAD"} /\ ~CIHas(request.headers, "Range")

\* the parts of a Cache-Control header, <<>> when there is none
Directives(headers) ==
    IF CIHas(headers, "Cache-Control") THEN CIGet(headers, "Cache-Control") ELSE <<>>
HasDirective(headers, k) ==
    \E i \in 1..Len(Directives(headers)) : Directives(headers)[i].k = k
HasIntDirective(headers, k) ==
    \E i \in 1..Len(Directives(headers)) :
        Directives(headers)[i].k = k /\ Directives(headers)[i].kind = "int"
IntDirective(headers, k) ==
    Directives(headers)[CHOOSE i \in 1..Len(Directives(headers)) :
                            Directives(headers)[i].k = k
                            /\ Directives(headers)[i].kind = "int"].n

\* age of an entry at instant t: t - Date, 0 without a Date
AgeAt(entry, t) ==
    IF CIHas(entry.headers, "Date") THEN t - CIGet(entry.headers, "Date") ELSE 0

\* the entry carries stale-if-error=S and its age is at most S
WindowCovers(entry, t) ==
    /\ HasIntDirective(entry.headers, "stale-if-error")
    /\ AgeAt(entry, t) <= IntDirective(entry.headers, "stale-if-error")

XCacheOf(resp) ==
    IF CIHas(resp.headers, X_CACHE) THEN CIGet(resp.headers, X_CACHE) ELSE "none"

HasStaleWarning(resp) ==
    IF CIHas(resp.headers, "Stale-Warning")
        THEN CIGet(resp.headers, "Stale-Warning") = STALE_WARNING
        ELSE FALSE

\* the transport was called and the origin answered
Answered == last.sent = 1 /\ ~last.tr.raises

AllEmpty(bs) == \A i \in 1..Len(bs) : bs[i].cache = <<>>

\* the body of the response an integration rebuilds from a stored body
RebuiltBody(body) ==
    CASE impl = "HTTPCache" -> utf8_encode(body)
      [] OTHER -> IF body # <<>> THEN b64decode(body) ELSE <<>>

\* headers h are `old` overridden per key by `new` (X-Cache aside)
MergedOver(h, old, new) ==
    /\ \A k \in DOMAIN new :
          Lower(k) # "x-cache" => (CIHas(h, k) /\ CIGet(h, k) = new[k])
    /\ \A k \in DOMAIN old :
          (~CIHas(new, k) /\ Lower(k) # "x-cache") => (CIHas(h, k) /\ CIGet(h, k) = old[k])

----------------------------------------------------------------------------
(* C1: miss then hit *)

\* the previous call went to the origin and got 200 with exactly max-age=N, N > 0
C1_FirstAnswered ==
    /\ Cacheable(last.request) /\ Answered
    /\ last.tr.status_code = OK
    /\ Len(Directives(last.tr.headers)) = 1
    /\ HasIntDirective(last.tr.headers, "max-age")
    /\ IntDirective(last.tr.headers, "max-age") > 0

\* this step is the same request again, less than N after the first
C1_SameAgain ==
    /\ IsCall /\ ~cleared
    /\ last'.request = last.request
    /\ now - last.t < IntDirective(last.tr.headers, "max-age")

C1_MissThenHit ==
    /\ last.kind = "response" /\ XCacheOf(last.resp) = "miss"
    /\ last'.kind = "response" /\ XCacheOf(last'.resp) = "hits"
    /\ last'.sent = 0 /\ sends' = sends

\* the request neither forces revalidation nor asks for more remaining
\* freshness than the entry has at the second call
C1_NoRequestOverride ==
    /\ ~HasDirective(last.request.headers, "no-cache")
    /\ HasIntDirective(last.request.headers, "min-fresh") =>
          IntDirective(last.tr.headers, "max-age") - (now - last.t)
              >= IntDirective(last.request.headers, "min-fresh")

\* C1 as stated: for every cacheable request (GET or HEAD, no Range) answered
\* 200 with Cache-Control: max-age=N, N > 0, the same request sent again less
\* than N later is answered X-Cache: hits with no transport send, the first
\* answer having carried X-Cache: miss.
C1_Original == [][(C1_FirstAnswered /\ C1_SameAgain) => C1_MissThenHit]_vars

\* C1 amended: the same, for requests that carry no Cache-Control: no-cache
\* and no min-fresh=F with F greater than the freshness remaining at the
\* second call (N minus the time elapsed).
C1_Amended ==
    [][(C1_FirstAnswered /\ C1_SameAgain /\ C1_NoRequestOverride) => C1_MissThenHit]_vars

\* a second identical request answered from the cache, one send in total
C1_Witness ==
    /\ calls = 2 /\ sends = 1 /\ last.sent = 0 /\ ~cleared
    /\ Cacheable(last.request)
    /\ last.kind = "response" /\ XCacheOf(last.resp) = "hits"
    /\ last.t > last.found.timestamp

----------------------------------------------------------------------------
(* C2: read repair *)

\* the lookup missed in tier A and found the key in tier B
C2_OnlyInB == last.idx = 2 /\ last.ops[1] = <<"get", 1, "miss">>

C2_Repaired ==
    /\ last.kind = "response" /\ last.cached
    /\ ~cleared =>
          /\ Holds(backends[1], Key)
          /\ Held(backends[1], Key) = last.found
          /\ Held(backends[2], Key) = last.found

\* the found entry is fresh for the request at the time of the call
C2_FoundFresh ==
    HTTPCache_check_freshness(last.request.headers, last.found.headers, last.t) = FRESH

\* C2 as stated: with backends [A, B] and the key only in B, after one lookup
\* the key is in A with an entry identical to B's and the request is answered
\* from the cache.
C2_Original == C2_OnlyInB => C2_Repaired

\* C2 amended: with backends [A, B] and the key only in B, the lookup sets
\* B's entry into A; when that entry is fresh for the request, the key is
\* then in A with an entry identical to B's and the request is answered from
\* the cache.
C2_Amended ==
    /\ C2_OnlyInB => (Len(last.ops) >= 3 /\ last.ops[3] = <<"set", 1, "ok">>)
    /\ (C2_OnlyInB /\ C2_FoundFresh) => C2_Repaired

\* a fresh entry found in B only, copied into A, no transport send
C2_Witness ==
    /\ C2_OnlyInB /\ C2_FoundFresh /\ ~cleared /\ last.sent = 0
    /\ Holds(backends[1], Key) /\ Held(backends[1], Key) = last.found

----------------------------------------------------------------------------
(* C3: binary round trip *)

\* C3 as stated: the body rebuilt from a serialised response equals the
\* original body byte for byte, whatever the bytes.
C3_RoundTrip == codec.phase = "built" => codec.rebuilt = codec.content

----------------------------------------------------------------------------
(* C4: availability under backend faults *)

\* C4 as stated: when the transport returns a 200 or a 404, the call returns
\* that response (status and body) without raising, whichever backend get,
\* set or delete operations raise.
C4_Availability ==
    (Answered /\ last.tr.status_code \in {OK, 404}) =>
        /\ last.kind = "response"
        /\ last.resp.status_code = last.tr.status_code
        /\ last.resp.content = last.tr.content

----------------------------------------------------------------------------
(* C5: stale-if-error on 5xx *)

C5_ServedStale ==
    /\ last.kind = "response" /\ last.cached
    /\ last.resp.status_code = last.found.status_code
    /\ last.resp.content = RebuiltBody(last.found.body)
    /\ HasStaleWarning(last.resp)

----------------------------------------------------------------------------
(* C6: transport failure *)

\* C6 as stated: when the transport fails, the call returns the cached
\* response with the Stale-Warning header if an entry was found whose
\* stale-if-error window covers its age, and re-raises otherwise.
C6_TransportFailure ==
    (last.sent = 1 /\ last.tr.exc = "TransportError") =>
        IF last.idx > 0 /\ WindowCovers(last.found, last.t)
            THEN last.kind = "response" /\ last.cached /\ HasStaleWarning(last.resp)
            ELSE last.kind = "raise"

----------------------------------------------------------------------------
(* C7: 304 merge *)

C7_Revalidated == last.idx > 0 /\ Answered /\ last.tr.status_code = NOT_MODIFIED

C7_MergedEntry(e) ==
    /\ e.status_code = last.found.status_code
    /\ e.status_code # NOT_MODIFIED
    /\ e.body = last.found.body
    /\ MergedOver(e.headers, last.found.headers, last.tr.headers)

\* C7: when an entry was found and the transport answers 304, the call
\* returns the cached status and body with the cached headers overridden by
\* the 304's headers and X-Cache: hits; every backend then holds the merged
\* entry and none holds an entry of status 304.
C7_Merge304 ==
    C7_Revalidated =>
        /\ last.kind = "response" /\ last.cached
        /\ last.resp.status_code = last.found.status_code
        /\ last.resp.content = RebuiltBody(last.found.body)
        /\ MergedOver(last.resp.headers, last.found.headers, last.tr.headers)
        /\ XCacheOf(last.resp) = "hits"
        /\ ~cleared =>
              \A i \in 1..Len(backends) :
                  Holds(backends[i], Key) /\ C7_MergedEntry(Held(backends[i], Key))

\* a 304 that brought a header the entry lacked, over an entry with a header
\* the 304 lacked
C7_Witness ==
    /\ C7_Revalidated /\ ~cleared
    /\ \E k \in DOMAIN last.tr.headers : ~CIHas(last.found.headers, k)
    /\ \E k \in DOMAIN last.found.headers :
          Lower(k) # "x-cache" /\ ~CIHas(last.tr.headers, k)
    /\ \A i \in 1..Len(backends) : Holds(backends[i], Key)

----------------------------------------------------------------------------
(* C8: no-store *)

\* this step is a cacheable request, made with nothing cached, that the
\* origin answers with Cache-Control: no-store
C8_NoStoreAnswer ==
    /\ IsCall /\ AllEmpty(backends)
    /\ Cacheable(last'.request)
    /\ ~last'.tr.raises
    /\ HasDirective(last'.tr.headers, "no-store")

C8_NothingWritten ==
    /\ sends' = sends + 1
    /\ last'.kind = "response"
    /\ last'.resp.status_code = last'.tr.status_code
    /\ last'.resp.content = last'.tr.content
    /\ \A j \in 1..Len(last'.ops) : last'.ops[j][1] # "set"
    /\ AllEmpty(backends')

\* C8 as stated: against an origin whose every response carries no-store,
\* each request is sent on the transport, is answered X-Cache: miss, and
\* writes no entry to any backend.
C8_Original ==
    [][C8_NoStoreAnswer => (C8_NothingWritten /\ XCacheOf(last'.resp) = "miss")]_vars

\* C8 amended: against such an origin each request is sent on the transport
\* and writes no entry to any backend; the response is the origin's and
\* carries no X-Cache header.
C8_Amended ==
    [][C8_NoStoreAnswer => (C8_NothingWritten /\ XCacheOf(last'.resp) = "none")]_vars

\* two requests answered no-store: two sends, nothing cached
C8_Witness ==
    /\ calls = 2 /\ sends = 2 /\ AllEmpty(backends) /\ ~cleared
    /\ Cacheable(last.request)
    /\ HasDirective(last.tr.headers, "no-store")
    /\ last.idx = 0

----------------------------------------------------------------------------
(* C9: store write-through *)

C9_Storable ==
    /\ Cacheable(last.request) /\ Answered
    /\ last.tr.status_code \in codes
    /\ ~HasDirective(last.tr.headers, "no-store")

\* C9: a response to a cacheable request whose status is in the cacheable
\* set and that carries no no-store is returned with X-Cache: miss, and
\* afterwards every backend holds the same serialised entry for the key.
C9_WriteThrough ==
    C9_Storable =>
        /\ last.kind = "response"
        /\ XCacheOf(last.resp) = "miss"
        /\ last.resp.status_code = last.tr.status_code
        /\ ~cleared =>
              \A i \in 1..Len(backends) :
                  /\ Holds(backends[i], Key)
                  /\ Held(backends[i], Key) = Held(backends[1], Key)
                  /\ Held(backends[i], Key).status_code = last.tr.status_code
                  /\ Held(backends[i], Key).timestamp = last.t

\* a stored response held by both tiers
C9_Witness ==
    /\ C9_Storable /\ ~cleared
    /\ Len(backends) = 2
    /\ \A i \in 1..Len(backends) : Holds(backends[i], Key)
    /\ XCacheOf(last.resp) = "miss"

----------------------------------------------------------------------------
(* C10: configurable cacheable statuses *)

\* C10 as stated: each integration can be constructed with a set of
\* cacheable status codes, and then stores a response whose status is in
\* the set: a first 404 with max-age is answered X-Cache: miss and is stored.
C10_Configurable ==
    /\ ctor = "ok"
    /\ (Cacheable(last.request) /\ Answered /\ last.tr.status_code = 404
        /\ 404 \in codes /\ ~HasDirective(last.tr.headers, "no-store")) =>
          XCacheOf(last.resp) = "miss"

----------------------------------------------------------------------------
(* C11: invalidation *)

\* headers h are exactly the headers g, names compared without case
SameHeaders(h, g) ==
    /\ \A k \in DOMAIN g : CIHas(h, k) /\ CIGet(h, k) = g[k]
    /\ \A k \in DOMAIN h : CIHas(g, k)

\* the call deleted the key from every backend and returned the transport's
\* response as it came
C11_Invalidated ==
    /\ last.kind = "response" /\ ~last.cached
    /\ last.resp.status_code = last.tr.status_code
    /\ last.resp.content = last.tr.content
    /\ SameHeaders(last.resp.headers, last.tr.headers)
    /\ \A i \in 1..Len(backends) :
          \E j \in 1..Len(last.ops) : last.ops[j] = <<"delete", i, "ok">>
    /\ ~cleared => \A i \in 1..Len(backends) : ~Holds(backends[i], Key)

\* the origin answered with a status outside the cacheable set, and the
\* answer was not masked by a cached response under stale-if-error
C11_Uncacheable ==
    /\ Answered /\ last.tr.status_code \notin codes
    /\ ~(last.tr.status_code >= 500 /\ last.cached)

\* C11 as stated: a status outside the cacheable set, other than a 304
\* merged with a cached entry and a 5xx served by stale-if-error, deletes
\* the key from every backend and is returned unchanged; afterwards no
\* backend holds the key.
C11_Original ==
    (C11_Uncacheable /\ ~(last.tr.status_code = NOT_MODIFIED /\ last.idx > 0))
        => C11_Invalidated

\* C11 amended: the same for every status outside the cacheable set other
\* than 304 (a 304 never invalidates, whether or not a cached entry was
\* found) and other than a 5xx served by stale-if-error.
C11_Amended ==
    (C11_Uncacheable /\ last.tr.status_code # NOT_MODIFIED) => C11_Invalidated

\* a stale entry was found, the origin answered outside the cacheable set,
\* and the key is gone from every backend
C11_Witness ==
    /\ C11_Uncacheable /\ last.tr.status_code # NOT_MODIFIED
    /\ last.idx > 0 /\ ~cleared
    /\ \A i \in 1..Len(backends) : ~Holds(backends[i], Key)

----------------------------------------------------------------------------
(* C12: cachability gate *)

\* C12 as stated: a request whose method is not GET or HEAD, or that bears
\* a Range header, never reads a backend, is never answered from the cache
\* and never causes a set on a backend, whatever the origin answers.
C12_Gate ==
    (last.kind # "none" /\ ~Cacheable(last.request)) =>
        /\ last.idx = 0 /\ ~last.cached
        /\ \A j \in 1..Len(last.ops) : last.ops[j][1] \notin {"get", "set"}

----------------------------------------------------------------------------
(* C13: request fingerprint *)

\* the previous call stored the origin's answer under its key
C13_Stored ==
    /\ last.kind = "response" /\ Answered /\ ~cleared
    /\ XCacheOf(last.resp) = "miss"
    /\ \A i \in 1..Len(backends) : Holds(backends[i], Key)

\* C13 as stated: the key is derived from the pair (method, URL), so an
\* entry stored for a request of one method (GET or HEAD) is never found by
\* a request to the same URL with the other method.
C13_Fingerprint ==
    [][(C13_Stored /\ IsCall
        /\ last'.request.url = last.request.url
        /\ last'.request.method # last.request.method) => last'.idx = 0]_vars

----------------------------------------------------------------------------
(* One InMemoryCache driven directly by get / set / delete / clear.  The   *)
(* cache is either small with no expiry (eviction) or large with TTLs.     *)
(* Alongside the cache the state records how the keys were used: `uses`    *)
(* lists the keys by last use, oldest first; `writes` holds, per key, the  *)
(* last set that no delete or clear has undone.                            *)

MemKeys == 1..(MaxSize + 1)
TTLKeys == {1, 2}
NoWrite == [set |-> FALSE, value |-> 0, deadline |-> 0]
NoResult == [op |-> "none", key |-> 0, hit |-> FALSE, value |-> 0, t |-> 0]

MemStart(b) ==
    [on |-> TRUE, b |-> b, uses |-> <<>>, writes |-> [k \in MemKeys |-> NoWrite],
     res |-> NoResult]

\* the cache under test has no expiry and room for MaxSize entries
Evicting == mem.b.max_size = MaxSize

\* the keys of a sequence of keys, without key k
Without(q, k) == SelectSeq(q, LAMBDA x : x # k)

InitMem ==
    /\ impl = "HTTPCache" /\ ctor = "ok" /\ codes = {OK}
    /\ chaos = FALSE /\ backends = Tiers /\ now = 0 /\ last = NoCall
    /\ calls = 0 /\ sends = 0 /\ cleared = FALSE /\ codec = CodecOff
    /\ mem \in {MemStart(InMemoryCache(MaxSize, NoTTL))}
               \cup {MemStart(InMemoryCache(DefaultMaxSize, d)) : d \in {NoTTL, 2}}
    /\ thr = ThrOff /\ tasks = TasksOff /\ pair = PairOff /\ dec = DecOff

\* cache.set(k, value, ttl)
MemSet ==
    /\ mem.on
    /\ \E k \in (IF Evicting THEN MemKeys ELSE TTLKeys),
          ttl \in (IF Evicting THEN {NoTTL} ELSE {NoTTL, 1}) :
          LET ttl_val == IF ttl # NoTTL THEN ttl ELSE mem.b.default_ttl
          IN  mem' = [mem EXCEPT
                  !.b = mem_set(@, k, now, ttl, now),
                  !.uses = Append(Without(@, k), k),
                  !.writes[k] = [set |-> TRUE, value |-> now,
                                 deadline |-> IF ttl_val # NoTTL THEN now + ttl_val
                                              ELSE Infinity],
                  !.res = [op |-> "set", key |-> k, hit |-> FALSE, value |-> now,
                           t |-> now]]
    /\ UNCHANGED <<impl, ctor, codes, chaos, backends, now, last, calls, sends, cleared,
                   codec, thr, tasks, pair, dec>>

\* cache.get(k)
MemGet ==
    /\ mem.on
    /\ \E k \in (IF Evicting THEN MemKeys ELSE TTLKeys) :
          LET g == mem_get(mem.b, k, now)
          IN  mem' = [mem EXCEPT
                  !.b = g.b,
                  !.uses = IF g.hit THEN Append(Without(@, k), k) ELSE @,
                  !.res = [op |-> "get", key |-> k, hit |-> g.hit,
                           value |-> IF g.hit THEN g.value ELSE 0, t |-> now]]
    /\ UNCHANGED <<impl, ctor, codes, chaos, backends, now, last, calls, sends, cleared,
                   codec, thr, tasks, pair, dec>>

\* cache.delete(k)
MemDelete ==
    /\ mem.on /\ ~Evicting
    /\ \E k \in TTLKeys :
          mem' = [mem EXCEPT
              !.b = mem_delete(@, k),
              !.uses = Without(@, k),
              !.writes[k] = NoWrite,
              !.res = [op |-> "delete", key |-> k, hit |-> FALSE, value |-> 0, t |-> now]]
    /\ UNCHANGED <<impl, ctor, codes, chaos, backends, now, last, calls, sends, cleared,
                   codec, thr, tasks, pair, dec>>

\* cache.clear()
MemClear ==
    /\ mem.on /\ ~Evicting /\ mem.b.cache # <<>>
    /\ mem' = [mem EXCEPT
          !.b = mem_clear(@),
          !.uses = <<>>,
          !.writes = [k \in MemKeys |-> NoWrite],
          !.res = [op |-> "clear", key |-> 0, hit |-> FALSE, value |-> 0, t |-> now]]
    /\ UNCHANGED <<impl, ctor, codes, chaos, backends, now, last, calls, sends, cleared,
                   codec, thr, tasks, pair, dec>>

\* time.time() advances
MemTick ==
    /\ mem.on /\ ~Evicting /\ now < MaxTime
    /\ now' = now + 1
    /\ UNCHANGED <<impl, ctor, codes, chaos, backends, last, calls, sends, cleared,
                   codec, mem, thr, tasks, pair, dec>>

NextMem == MemSet \/ MemGet \/ MemDelete \/ MemClear \/ MemTick

SpecMem == InitMem /\ [][NextMem]_vars

----------------------------------------------------------------------------
(* C14: LRU *)

\* the keys the cache holds, least recently used first
CachedKeys(b) == [i \in 1..Len(b.cache) |-> b.cache[i].key]

\* the last n elements of a sequence
LastN(q, n) == IF Len(q) <= n THEN q ELSE SubSeq(q, Len(q) - n + 1, Len(q))

\* C14: with max_size = K and no expiry, whatever sets and gets were made,
\* the cache holds the K most recently used keys (a set and a successful
\* get are uses) and, once more than K distinct keys were inserted, exactly
\* K entries; so every eviction removed the least recently used key.
C14_LRU ==
    (mem.on /\ Evicting) =>
        /\ CachedKeys(mem.b) = LastN(mem.uses, MaxSize)
        /\ Len(mem.uses) > MaxSize => Len(mem.b.cache) = MaxSize

\* more keys than max_size were inserted, and a get then hit a retained key
C14_Witness ==
    /\ mem.on /\ Evicting
    /\ Len(mem.uses) > MaxSize
    /\ mem.res.op = "get" /\ mem.res.hit
    /\ Len(mem.b.cache) = MaxSize

----------------------------------------------------------------------------
(* C15: TTL *)

\* C15: a get returns the value of the key's last set when it is issued no
\* later than that set's deadline (time of the set plus the per-call TTL,
\* or default_ttl without one), and reports absent when issued after the
\* deadline; after an absent get the cache no longer holds the key.
C15_TTL ==
    (mem.on /\ ~Evicting /\ mem.res.op = "get") =>
        LET w == mem.writes[mem.res.key]
        IN  /\ mem.res.hit <=> (w.set /\ mem.res.t <= w.deadline)
            /\ mem.res.hit => mem.res.value = w.value
            /\ ~mem.res.hit => ~Holds(mem.b, mem.res.key)

\* a get issued after the deadline of a set that nothing undid
C15_Witness ==
    /\ mem.on /\ ~Evicting /\ mem.res.op = "get"
    /\ mem.writes[mem.res.key].set
    /\ mem.res.t > mem.writes[mem.res.key].deadline
    /\ ~mem.res.hit

----------------------------------------------------------------------------
(* Concurrent callers of one InMemoryCache.  Each method body runs         *)
(* statement by statement under `with self._lock`.  In the "thread"        *)
(* profile a caller may be preempted between any two statements; in the    *)
(* "task" profile (AsyncInMemoryCache) a caller suspends only at           *)
(* `async with self._lock`, and the synchronous body runs without          *)
(* suspension.  `lin` is the cache as the sequential methods leave it when *)
(* each call is applied whole at the moment it takes the lock, and `exp`   *)
(* is what that sequential call returns.                                   *)

Threads == {1, 2}
LockKeys == {1, 2}
Ops == {"get", "set", "delete", "clear"}
InLock == {"get1", "get2", "set1", "set2", "set3", "delete1", "delete2", "clear1",
           "release"}

NoRes == [hit |-> FALSE, value |-> 0, err |-> FALSE]
NoLocal == [key |-> 0, value |-> 0, expiry |-> 0]
ThreadIdle == [pc |-> "idle", op |-> "none", key |-> 0, loc |-> NoLocal,
               res |-> NoRes, exp |-> NoRes]

\* a lock whose acquire does not wait
LockFree_always(l) == TRUE

\* self._lock can be taken
LockFree(l) == l = 0

\* the scheduler may run caller i now
CanRun(i) ==
    \/ thr.profile = "thread"
    \/ \A j \in Threads \ {i} : thr.th[j].pc \notin InLock

InitLock ==
    /\ impl = "HTTPCache" /\ ctor = "ok" /\ codes = {OK}
    /\ chaos = FALSE /\ backends = Tiers /\ now = 0 /\ last = NoCall
    /\ calls = 0 /\ sends = 0 /\ cleared = FALSE /\ codec = CodecOff
    /\ mem = MemOff /\ tasks = TasksOff /\ pair = PairOff /\ dec = DecOff
    /\ \E pr \in {"thread", "task"} :
          thr = [on |-> TRUE, profile |-> pr, lock |-> 0,
                 b |-> InMemoryCache(1, NoTTL), lin |-> InMemoryCache(1, NoTTL),
                 th |-> [i \in Threads |-> ThreadIdle]]

ThrFrame ==
    UNCHANGED <<impl, ctor, codes, chaos, backends, now, last, calls, sends, cleared,
                codec, mem, tasks, pair, dec>>

\* a caller invokes cache.<op>(key); a set stores the caller's number
ThrInvoke ==
    /\ thr.on
    /\ \E i \in Threads, op \in Ops, k \in LockKeys :
          /\ thr.th[i].pc \in {"idle", "done"}
          /\ CanRun(i)
          /\ op = "clear" => k = 1
          /\ thr' = [thr EXCEPT !.th[i] =
                        [ThreadIdle EXCEPT !.pc = "wait", !.op = op, !.key = k]]
    /\ ThrFrame

\* what the sequential method does to the cache and returns
Sequential(b, op, key, value, t) ==
    CASE op = "get" ->
            LET g == mem_get(b, key, t)
            IN  [b |-> g.b,
                 res |-> [hit |-> g.hit, value |-> IF g.hit THEN g.value ELSE 0,
                          err |-> FALSE]]
      [] op = "set" -> [b |-> mem_set(b, key, value, NoTTL, t), res |-> NoRes]
      [] op = "delete" -> [b |-> mem_delete(b, key), res |-> NoRes]
      [] OTHER -> [b |-> mem_clear(b), res |-> NoRes]

\* with self._lock: entered
ThrAcquire ==
    /\ thr.on
    /\ \E i \in Threads :
          /\ thr.th[i].pc = "wait"
          /\ CanRun(i)
          /\ LockFree(thr.lock)
          /\ LET q == Sequential(thr.lin, thr.th[i].op, thr.th[i].key, i, now)
             IN  thr' = [thr EXCEPT !.lock = i, !.lin = q.b,
                                    !.th[i].pc = thr.th[i].op \o "1",
                                    !.th[i].exp = q.res]
    /\ ThrFrame

\* one statement of a method body
Statement(b, me, th) ==
    LET c == b.cache
        i == IndexOf(c, th.key)
        err == [th EXCEPT !.pc = "release", !.res = [NoRes EXCEPT !.err = TRUE]]
        ret == [th EXCEPT !.pc = "release"]
    IN
    CASE th.pc = "get1" ->
            IF i = 0 THEN [b |-> b, th |-> ret]
            ELSE [b |-> b,
                  th |-> [th EXCEPT !.pc = "get2",
                              !.loc = [key |-> th.key, value |-> c[i].value,
                                       expiry |-> c[i].expiry]]]
      [] th.pc = "get2" ->
            IF i = 0 THEN [b |-> b, th |-> err]
            ELSE IF th.loc.expiry # Infinity /\ now > th.loc.expiry
                THEN [b |-> [b EXCEPT !.cache = RemoveAt(c, i)], th |-> ret]
            ELSE [b |-> [b EXCEPT !.cache = Append(RemoveAt(c, i), c[i])],
                  th |-> [ret EXCEPT !.res = [hit |-> TRUE, value |-> th.loc.value,
                                              err |-> FALSE]]]
      [] th.pc = "set1" ->
            [b |-> IF i = 0 THEN b
                   ELSE [b EXCEPT !.cache = Append(RemoveAt(c, i), c[i])],
             th |-> [th EXCEPT !.pc = "set2",
                         !.loc = [key |-> th.key, value |-> me,
                                  expiry |-> IF b.default_ttl # NoTTL
                                                 THEN now + b.default_ttl
                                                 ELSE Infinity]]]
      [] th.pc = "set2" ->
            LET e == [key |-> th.key, value |-> th.loc.value, expiry |-> th.loc.expiry]
            IN  [b |-> [b EXCEPT !.cache = IF i = 0 THEN Append(c, e)
                                           ELSE [c EXCEPT ![i] = e]],
                 th |-> [th EXCEPT !.pc = "set3"]]
      [] th.pc = "set3" ->
            [b |-> IF Len(c) > b.max_size THEN [b EXCEPT !.cache = Tail(c)] ELSE b,
             th |-> ret]
      [] th.pc = "delete1" ->
            IF i = 0 THEN [b |-> b, th |-> ret]
            ELSE [b |-> b, th |-> [th EXCEPT !.pc = "delete2"]]
      [] th.pc = "delete2" ->
            IF i = 0 THEN [b |-> b, th |-> err]
            ELSE [b |-> [b EXCEPT !.cache = RemoveAt(c, i)], th |-> ret]
      [] OTHER -> [b |-> [b EXCEPT !.cache = <<>>], th |-> ret]

ThrStep ==
    /\ thr.on
    /\ \E i \in Threads :
          /\ thr.th[i].pc \in InLock \ {"release"}
          /\ CanRun(i)
          /\ LET q == Statement(thr.b, i, thr.th[i])
             IN  thr' = [thr EXCEPT !.b = q.b, !.th[i] = q.th]
    /\ ThrFrame

\* with self._lock: left, and the method returns
ThrRelease ==
    /\ thr.on
    /\ \E i \in Threads :
          /\ thr.th[i].pc = "release"
          /\ CanRun(i)
          /\ thr' = [thr EXCEPT !.lock = 0, !.th[i].pc = "done"]
    /\ ThrFrame

NextLock == ThrInvoke \/ ThrAcquire \/ ThrStep \/ ThrRelease

SpecLock == InitLock /\ [][NextLock]_vars

----------------------------------------------------------------------------
(* C16: linearizability of the in-memory backend *)

\* C16: under every interleaving of get / set / delete / clear calls of
\* concurrent threads (InMemoryCache) or tasks (AsyncInMemoryCache), at most
\* one call is inside the critical section, every completed call returned
\* what the sequential method returns when applied whole at the moment the
\* call took the lock, and between critical sections the cache is the one
\* those sequential calls produce.
C16_Linearizable ==
    thr.on =>
        /\ \A i, j \in Threads :
              (thr.th[i].pc \in InLock /\ thr.th[j].pc \in InLock) => i = j
        /\ \A i \in Threads : thr.th[i].pc = "done" => thr.th[i].res = thr.th[i].exp
        /\ (\A i \in Threads : thr.th[i].pc \notin InLock) => thr.b = thr.lin

\* inside its critical section a get has read the value the other thread
\* set, while that other thread waits for the lock with its next call
C16_Witness ==
    /\ thr.on /\ thr.profile = "thread"
    /\ \E i, j \in Threads :
          /\ i # j
          /\ thr.th[i].pc = "wait"
          /\ thr.th[j].pc = "get2"
          /\ thr.th[j].exp.hit /\ thr.th[j].exp.value = i

----------------------------------------------------------------------------
(* Concurrent requests through one asynchronous client over one           *)
(* AsyncInMemoryCache.  A request suspends at each backend call, at the    *)
(* transport send and while the response body is read; it may be           *)
(* cancelled while it waits for the transport or for the body.             *)

TaskIds == 1..MaxTasks

Concurrent200 ==
    Transport(FALSE, 200, [x \in {"Cache-Control"} |-> <<IntVal("max-age", 60)>>],
              <<68, 97>>)

TaskStart ==
    [pc |-> "start", got |-> 0, resp |-> NoResponse, cached |-> FALSE, wrote |-> FALSE]

\* the URL task i requests
UrlOf(i) == IF tasks.same THEN <<Url>> ELSE <<Url, i>>
RequestOf(i) == Request("GET", UrlOf(i), EmptyDict)

\* a body read that returns before the body is complete
ReadComplete_skip(content, got) == TRUE

\* await resp.aread() / await resp.read() has returned
ReadComplete(content, got) == got = Len(content)

InitConc ==
    /\ impl \in {"Httpx", "Aiohttp"} /\ ctor = "ok" /\ codes = {OK}
    /\ chaos = FALSE /\ backends = Tiers /\ now = 0 /\ last = NoCall
    /\ calls = 0 /\ sends = 0 /\ cleared = FALSE /\ codec = CodecOff
    /\ mem = MemOff /\ thr = ThrOff /\ pair = PairOff /\ dec = DecOff
    /\ \E same \in BOOLEAN :
          tasks = [on |-> TRUE, same |-> same, b |-> InMemoryCache(MaxSize, NoTTL),
                   sent |-> 0, t |-> [i \in TaskIds |-> TaskStart]]

ConcFrame ==
    UNCHANGED <<impl, ctor, codes, chaos, backends, now, last, calls, sends, cleared,
                codec, mem, thr, pair, dec>>

\* lookup, rebuilt response and freshness decision of request i
TaskLookup ==
    /\ tasks.on
    /\ \E i \in TaskIds :
          /\ tasks.t[i].pc = "start"
          /\ LET req == RequestOf(i)
                 lk == TierLookup(Begin(<<tasks.b>>), cache_keys(req.url), 1, NoFault,
                                  now, TRUE)
                 built == IF impl = "Httpx" THEN Httpx_build_response(lk.entry, req)
                          ELSE CachedAiohttpResponse(lk.entry, req.url)
                 cache_resp == [built EXCEPT !.headers =
                                   CIPut(@, IF impl = "Httpx" THEN Lower(X_CACHE)
                                            ELSE X_CACHE, X_FROM_CACHE)]
                 fresh == lk.hit /\ check_freshness(req.headers, cache_resp.headers, now)
                                        = FRESH
             IN  tasks' = [tasks EXCEPT
                     !.b = lk.s.bs[1],
                     !.t[i] = IF fresh
                                  THEN [@ EXCEPT !.pc = "done", !.resp = cache_resp,
                                                 !.cached = TRUE]
                                  ELSE [@ EXCEPT !.pc = "sending"]]
    /\ ConcFrame

\* the transport answers request i
TaskSend ==
    /\ tasks.on
    /\ \E i \in TaskIds :
          /\ tasks.t[i].pc = "sending"
          /\ LET tr == Concurrent200
                 h == IF impl = "Httpx" THEN LowerKeys(tr.headers) ELSE tr.headers
             IN  tasks' = [tasks EXCEPT
                     !.sent = @ + 1,
                     !.t[i] = [@ EXCEPT !.pc = "reading", !.got = 0,
                                        !.resp = Response(tr.status_code, UrlOf(i), h,
                                                          <<>>)]]
    /\ ConcFrame

\* the body of request i arrives, one byte at a time, until the read returns
TaskRead ==
    /\ tasks.on
    /\ \E i \in TaskIds :
          /\ tasks.t[i].pc = "reading"
          /\ IF ReadComplete(Concurrent200.content, tasks.t[i].got)
                THEN tasks' = [tasks EXCEPT !.t[i].pc = "storing"]
                ELSE tasks' = [tasks EXCEPT
                        !.t[i].got = @ + 1,
                        !.t[i].resp.content =
                            SubSeq(Concurrent200.content, 1, tasks.t[i].got + 1)]
    /\ ConcFrame

\* request i serialises what it read and sets it into the backend
TaskStore ==
    /\ tasks.on
    /\ \E i \in TaskIds :
          /\ tasks.t[i].pc = "storing"
          /\ LET resp == tasks.t[i].resp
                 missX == [resp EXCEPT !.headers = CIPut(@, Lower(X_CACHE),
                                                       X_NOT_FROM_CACHE)]
                 missA == [resp EXCEPT !.headers = CIPut(@, X_CACHE, X_NOT_FROM_CACHE)]
                 entry == IF impl = "Httpx" THEN Httpx_serialize_response(missX, now)
                          ELSE Aiohttp_serialize_response(resp, now)
                 w == TierSet(Begin(<<tasks.b>>), cache_keys(UrlOf(i)), entry, 1, 1,
                              NoFault, now, TRUE)
             IN  tasks' = [tasks EXCEPT
                     !.b = w.s.bs[1],
                     !.t[i] = [@ EXCEPT !.pc = "done", !.wrote = TRUE,
                                        !.resp = IF impl = "Httpx" THEN missX ELSE missA]]
    /\ ConcFrame

\* request i is cancelled while it waits for the transport or for the body
TaskCancel ==
    /\ tasks.on
    /\ \E i \in TaskIds :
          /\ tasks.t[i].pc \in {"sending", "reading"}
          /\ tasks' = [tasks EXCEPT !.t[i].pc = "cancelled"]
    /\ ConcFrame

NextConc == TaskLookup \/ TaskSend \/ TaskRead \/ TaskStore \/ TaskCancel

SpecConc == InitConc /\ [][NextConc]_vars

----------------------------------------------------------------------------
(* C17: concurrent identical requests *)

AllDone == \A i \in TaskIds : tasks.t[i].pc = "done"

\* every request returned 200 with the origin's body
C17_AllAnswered ==
    \A i \in TaskIds :
        /\ tasks.t[i].resp.status_code = OK
        /\ tasks.t[i].resp.content = Concurrent200.content

\* N identical requests through HttpxCacheClient have all completed
C17_Identical == tasks.on /\ impl = "Httpx" /\ tasks.same /\ AllDone

\* C17 as stated: N >= 2 identical cacheable GETs issued concurrently through
\* HttpxCacheClient over an empty cache, the origin answering 200 with
\* max-age=60, all return 200 with the origin's body, and the number of
\* transport sends is at least 1 and strictly less than N.
C17_Original ==
    C17_Identical => (C17_AllAnswered /\ tasks.sent >= 1 /\ tasks.sent < MaxTasks)

\* C17 amended: all return 200 with the origin's body, and the number of
\* transport sends is at least 1 and at most N; it equals the number of
\* requests whose lookup ran before any request had stored the response.
C17_Amended ==
    C17_Identical =>
        /\ C17_AllAnswered
        /\ tasks.sent >= 1 /\ tasks.sent <= MaxTasks
        /\ tasks.sent = Cardinality({i \in TaskIds : ~tasks.t[i].cached})

\* all N requests missed before the first one stored: N sends
C17_Witness ==
    /\ C17_Identical /\ tasks.sent = MaxTasks
    /\ Holds(tasks.b, cache_keys(UrlOf(1)))

----------------------------------------------------------------------------
(* C18: capacity under concurrent load *)

\* C18: requests for M distinct URLs, M > max_size = K, issued concurrently
\* through HttpxCacheClient over one AsyncInMemoryCache: under every
\* interleaving the backend never holds more than K entries, and once all
\* requests have completed it holds exactly K.
C18_Capacity ==
    (tasks.on /\ impl = "Httpx" /\ ~tasks.same) =>
        /\ Len(tasks.b.cache) <= MaxSize
        /\ AllDone => Len(tasks.b.cache) = MaxSize

\* all M requests completed, each having stored its response, K entries held
C18_Witness ==
    /\ tasks.on /\ impl = "Httpx" /\ ~tasks.same /\ AllDone
    /\ MaxTasks > MaxSize
    /\ \A i \in TaskIds : tasks.t[i].wrote
    /\ Len(tasks.b.cache) = MaxSize

----------------------------------------------------------------------------
(* C20: cancellation leaves no partial entry *)

\* C20: in the asynchronous integrations a request cancelled during the
\* transport send or the body read has made no set on the backend, so the
\* backend holds no entry for a key that only that request would have
\* written; and every entry the backend holds carries the complete body.
C20_NoPartialEntry ==
    tasks.on =>
        /\ \A i \in TaskIds :
              tasks.t[i].pc = "cancelled" =>
                  /\ ~tasks.t[i].wrote
                  /\ ~tasks.same => ~Holds(tasks.b, cache_keys(UrlOf(i)))
        /\ \A j \in 1..Len(tasks.b.cache) :
              /\ tasks.b.cache[j].value.body # <<>>
              /\ b64decode(tasks.b.cache[j].value.body) = Concurrent200.content

\* one request cancelled with part of the body read, another one stored
C20_Witness ==
    /\ tasks.on
    /\ \E i, j \in TaskIds :
          /\ tasks.t[i].pc = "cancelled"
          /\ tasks.t[i].got > 0 /\ tasks.t[i].got < Len(Concurrent200.content)
          /\ tasks.t[j].pc = "done" /\ tasks.t[j].wrote
    /\ tasks.b.cache # <<>>

----------------------------------------------------------------------------
(* HTTPCache and HttpxCacheClient side by side: each with its own two      *)
(* tiers, both with the default cacheable set, both given the same         *)
(* request, the same answer of the transport and the same backend faults   *)
(* at every step.                                                          *)

PairStart(bs) == [bs |-> bs, out |-> Return(Begin(bs), NoResponse, 0, EmptyDict, FALSE)]

InitPair ==
    /\ impl = "HTTPCache" /\ ctor = "ok" /\ codes = {OK}
    /\ chaos = TRUE /\ backends = Tiers /\ now = 0 /\ last = NoCall
    /\ calls = 0 /\ sends = 0 /\ cleared = FALSE /\ codec = CodecOff
    /\ mem = MemOff /\ thr = ThrOff /\ tasks = TasksOff
    /\ pair = [on |-> TRUE, n |-> 0, sync |-> PairStart(Tiers), async |-> PairStart(Tiers)]
    /\ dec = DecOff

\* one request through both integrations
PairStep ==
    /\ pair.on /\ pair.n < MaxCalls
    /\ \E x \in Menu(now), f \in Faults :
          LET so == HTTPCache_send(pair.sync.bs, x[1], x[2], f, now)
              ao == Httpx_request(pair.async.bs, {OK}, x[1], x[2], f, now)
          IN  pair' = [pair EXCEPT !.n = @ + 1,
                                   !.sync = [bs |-> so.bs, out |-> so],
                                   !.async = [bs |-> ao.bs, out |-> ao]]
    /\ UNCHANGED <<impl, ctor, codes, chaos, backends, now, last, calls, sends, cleared,
                   codec, mem, thr, tasks, dec>>

\* time passes
PairTick ==
    /\ pair.on /\ pair.n < MaxCalls /\ now < MaxTime
    /\ now' = now + 1
    /\ UNCHANGED <<impl, ctor, codes, chaos, backends, last, calls, sends, cleared,
                   codec, mem, thr, tasks, pair, dec>>

NextPair == PairStep \/ PairTick

SpecPair == InitPair /\ [][NextPair]_vars

----------------------------------------------------------------------------
(* C19: profile equivalence *)

\* what the caller sees of an outcome: a raised error, or the status with
\* the X-Cache and Stale-Warning annotations
Visible(out) ==
    [kind |-> out.kind, exc |-> out.exc,
     status |-> out.resp.status_code,
     xcache |-> XCacheOf(out.resp),
     stale |-> HasStaleWarning(out.resp)]

\* what a tier list holds, apart from the encoding each integration uses:
\* per tier and key, the status and the body a rebuilt response would carry
Contents(bs, sync) ==
    [i \in 1..Len(bs) |->
        [j \in 1..Len(bs[i].cache) |->
            [key |-> bs[i].cache[j].key,
             status |-> bs[i].cache[j].value.status_code,
             body |-> IF sync THEN utf8_encode(bs[i].cache[j].value.body)
                      ELSE IF bs[i].cache[j].value.body # <<>>
                               THEN b64decode(bs[i].cache[j].value.body)
                               ELSE <<>>]]]

\* C19 as stated: HTTPCache.send and HttpxCacheClient.request, run side by
\* side on the same requests, origin answers, transport failures and
\* backend failures, give the same caller-visible outcome at every step
\* and leave the same backend contents.
C19_Equivalent ==
    (pair.on /\ pair.n > 0) =>
        /\ Visible(pair.sync.out) = Visible(pair.async.out)
        /\ Contents(pair.sync.bs, TRUE) = Contents(pair.async.bs, FALSE)

----------------------------------------------------------------------------
(* C21: cancellation is not a transport failure *)

\* C21: when a call is cancelled during the transport send, the
\* cancellation is what the caller gets: the call raises CancelledError and
\* returns no cached response, with or without Stale-Warning, even when an
\* entry was found whose stale-if-error window covers its age.
C21_CancelPropagates ==
    (last.sent = 1 /\ last.tr.exc = "CancelledError") =>
        /\ last.kind = "raise" /\ last.exc = "CancelledError"
        /\ ~last.cached /\ ~HasStaleWarning(last.resp)

\* HttpxCacheClient is cancelled during the send while it holds an entry
\* whose stale-if-error window covers its age
C21_Witness ==
    /\ impl = "Httpx"
    /\ last.sent = 1 /\ last.tr.exc = "CancelledError"
    /\ last.idx > 0 /\ WindowCovers(last.found, last.t)
    /\ last.kind = "raise"

----------------------------------------------------------------------------
(* C22: lookup under backend faults *)

\* the n-th backend operation of the last call is a get that raised
C22_GetRaisedAt(n) == last.ops[n][1] = "get" /\ last.ops[n][3] = "raise"

\* C22 as stated: when the get of backend i raises, the lookup goes on to
\* backend i+1; when a later backend holds the key its entry is the one
\* found and a set into every earlier backend is attempted; when none holds
\* it the call goes to the transport as a miss.
C22_LookupTolerant ==
    \A n \in 1..Len(last.ops) :
        C22_GetRaisedAt(n) =>
            LET i == last.ops[n][2]
            IN  /\ i < Len(backends) =>
                       /\ n < Len(last.ops)
                       /\ last.ops[n + 1][1] = "get" /\ last.ops[n + 1][2] = i + 1
                /\ last.idx > i =>
                       /\ last.found # NoEntry
                       /\ \A j \in 1..(last.idx - 1) :
                              \E m \in 1..Len(last.ops) :
                                  last.ops[m][1] = "set" /\ last.ops[m][2] = j
                /\ last.idx = 0 => last.sent = 1

\* the same, for the two asynchronous wrappers only
C22_LookupTolerantAsync == impl # "HTTPCache" => C22_LookupTolerant

\* the get of backend 1 raised, backend 2 held the entry, and it was set
\* back into backend 1
C22_Witness ==
    /\ impl # "HTTPCache"
    /\ Len(last.ops) >= 3
    /\ C22_GetRaisedAt(1) /\ last.idx = 2
    /\ last.ops[3] = <<"set", 1, "ok">>
    /\ Holds(backends[1], Key)

----------------------------------------------------------------------------
(* C23: best-effort fan-out *)

\* the n-th backend operation of the last call belongs to read repair: the
\* sets that follow the gets, into the tiers before the one that hit
C23_InRepair(n) == last.idx > 1 /\ n > last.idx /\ n < 2 * last.idx

\* the last backend of the fan-out that operation n belongs to
C23_RangeEnd(n) == IF C23_InRepair(n) THEN last.idx - 1 ELSE Len(backends)

C23_Wrote ==
    \E n \in 1..Len(last.ops) : last.ops[n][1] = "set" /\ ~C23_InRepair(n)
C23_Deleted == \E n \in 1..Len(last.ops) : last.ops[n][1] = "delete"

\* C23 as stated: a set or delete that raises is followed by the same
\* operation on the next backend of the fan-out, and after the call every
\* backend whose operation did not raise holds the key (store, 304 merge,
\* read repair) or no longer holds it (invalidate), until the application
\* clears a tier itself.
C23_BestEffort ==
    /\ \A n \in 1..Len(last.ops) :
           (last.ops[n][1] \in {"set", "delete"} /\ last.ops[n][3] = "raise"
                /\ last.ops[n][2] < C23_RangeEnd(n)) =>
               /\ n < Len(last.ops)
               /\ last.ops[n + 1][1] = last.ops[n][1]
               /\ last.ops[n + 1][2] = last.ops[n][2] + 1
    /\ (~cleared /\ C23_Wrote) =>
           \A j \in (1..Len(backends)) \ last.f.set :
               Holds(backends[j], cache_keys(last.request.url))
    /\ (~cleared /\ C23_Deleted) =>
           \A j \in (1..Len(backends)) \ last.f.delete :
               ~Holds(backends[j], cache_keys(last.request.url))
    /\ (~cleared /\ last.idx > 1 /\ ~C23_Deleted) =>
           \A j \in (1..(last.idx - 1)) \ last.f.set :
               Holds(backends[j], cache_keys(last.request.url))

\* the same, for the two asynchronous wrappers only
C23_BestEffortAsync == impl # "HTTPCache" => C23_BestEffort

\* the set of backend 1 raised during a store and backend 2 was written
C23_Witness ==
    /\ impl # "HTTPCache"
    /\ ~cleared /\ C23_Wrote /\ last.f.set = {1}
    /\ ~Holds(backends[1], Key) /\ Holds(backends[2], Key)

----------------------------------------------------------------------------
(* C24: stored-status invariant *)

\* the entries a backend holds
Entries(b) == {b.cache[n].value : n \in 1..Len(b.cache)}

\* C24: every entry held by any backend has a status_code of the
\* configured cacheable set.
C24_StoredStatus ==
    \A i \in 1..Len(backends) :
        \A e \in Entries(backends[i]) : e.status_code \in codes

\* with 404 configured as cacheable, a stored 404 was revalidated by a 304
\* and the merged entry written to every backend still has status 404
C24_Witness ==
    /\ 404 \in codes
    /\ Answered /\ last.tr.status_code = NOT_MODIFIED /\ last.idx > 0
    /\ last.ops[Len(last.ops)] = <<"set", Len(backends), "ok">>
    /\ \A i \in 1..Len(backends) :
           Holds(backends[i], Key) /\ Held(backends[i], Key).status_code = 404

----------------------------------------------------------------------------
(* One freshness decision.  The caller's Cache-Control and the cached      *)
(* response's Cache-Control, Date and Expires are drawn from the forms     *)
(* the parser distinguishes; the clock may advance before the entry is     *)
(* classified.  Date is carried under the name check_date reads.           *)

Engines == {"policy", "HTTPCache"}

\* the forms of a directive value: absent, bare, `k=`, k=<integer>, k=<text>
Forms(k, ints) ==
    {<<>>, <<Bare(k)>>, <<Part(k, "empty", 0)>>, <<Part(k, "str", 0)>>}
        \cup {<<IntVal(k, n)>> : n \in ints}
Flag(k) == {<<>>, <<Bare(k)>>}

\* a headers dict out of the headers that are present
Headers(names, cc, date, expires) ==
    [x \in names |->
        CASE Lower(x) = "cache-control" -> cc
          [] x = "Date" -> date
          [] OTHER -> expires]

\* request headers: Cache-Control with no-cache, only-if-cached, max-stale,
\* min-fresh, or no Cache-Control at all
ReqHeaders ==
    {IF cc = <<>> THEN EmptyDict ELSE Headers({"Cache-Control"}, cc, 0, 0) :
        cc \in {a \o b \o c \o d :
                  a \in Flag("no-cache"), b \in Flag("only-if-cached"),
                  c \in Forms("max-stale", 0..MaxAge),
                  d \in {<<>>, <<Part("min-fresh", "str", 0)>>}
                          \cup {<<IntVal("min-fresh", n)>> : n \in 1..(MaxAge + 1)}}}

\* response headers as stored: Cache-Control with no-cache and max-age,
\* Date, Expires (a date or a value that is none); header names as sent or
\* lower-cased
RespHeaders ==
    {Headers((IF cc = <<>> THEN {} ELSE {ccName}) \cup dateName \cup expName,
             cc, 0, exp) :
        exp \in {1, BadDate},
        cc \in {a \o b : a \in Flag("no-cache"),
                          b \in Forms("max-age", 0..MaxAge)
                                  \ {<<Bare("max-age")>>, <<Part("max-age", "empty", 0)>>}},
        ccName \in {"Cache-Control", "cache-control"},
        dateName \in {{}, {"Date"}},
        expName \in {{}, {"Expires"}, {"expires"}}}

InitFresh ==
    /\ impl = "HTTPCache" /\ ctor = "ok" /\ codes = {OK}
    /\ chaos = FALSE /\ backends = Tiers /\ now = 0 /\ last = NoCall
    /\ calls = 0 /\ sends = 0 /\ cleared = FALSE /\ codec = CodecOff
    /\ mem = MemOff /\ thr = ThrOff /\ tasks = TasksOff /\ pair = PairOff
    /\ \E e \in Engines, q \in ReqHeaders, r \in RespHeaders :
          dec = [on |-> TRUE, engine |-> e, req |-> q, resp |-> r,
                 phase |-> "input", t0 |-> 0, t |-> 0, result |-> STALE,
                 covers |-> FALSE]

FreshFrame ==
    UNCHANGED <<impl, ctor, codes, chaos, backends, last, calls, sends, cleared, codec,
                mem, thr, tasks, pair>>

\* time passes before the lookup, or between the clock read that
\* substitutes for a missing Date and the clock read for `now`
FreshTick ==
    /\ dec.on /\ dec.phase \in {"input", "dated"} /\ now < MaxTime
    /\ now' = now + 1
    /\ UNCHANGED dec
    /\ FreshFrame

\* the engine looks for the response's Date; the clock at this point is
\* what a missing Date is replaced by
FreshDate ==
    /\ dec.on /\ dec.phase = "input"
    /\ dec' = [dec EXCEPT !.phase = "dated", !.t0 = now]
    /\ UNCHANGED now
    /\ FreshFrame

\* the engine reads the clock for `now` and classifies the cached response
FreshCheck ==
    /\ dec.on /\ dec.phase = "dated"
    /\ dec' = [dec EXCEPT
                  !.phase = "decided", !.t = now,
                  !.result = IF dec.engine = "policy"
                                 THEN check_freshness_at(dec.req, dec.resp, dec.t0, now)
                                 ELSE HTTPCache_check_freshness_at(dec.req, dec.resp,
                                                                   dec.t0, now)]
    /\ UNCHANGED now
    /\ FreshFrame

NextFresh == FreshTick \/ FreshDate \/ FreshCheck

SpecFresh == InitFresh /\ [][NextFresh]_vars

----------------------------------------------------------------------------
(* The stale-if-error evaluator on its own: a cached response's headers
   are drawn, time passes, the evaluator reads the clock as the freshness
   engine does and answers whether the window covers the entry *)

\* response headers as stored: Cache-Control with stale-if-error, Date
WindowHeaders ==
    {Headers((IF cc = <<>> THEN {} ELSE {ccName}) \cup dateName, cc, 0, 0) :
        cc \in Forms("stale-if-error", 0..MaxAge),
        ccName \in {"Cache-Control", "cache-control"},
        dateName \in {{}, {"Date"}}}

InitWindow ==
    /\ impl = "HTTPCache" /\ ctor = "ok" /\ codes = {OK}
    /\ chaos = FALSE /\ backends = Tiers /\ now = 0 /\ last = NoCall
    /\ calls = 0 /\ sends = 0 /\ cleared = FALSE /\ codec = CodecOff
    /\ mem = MemOff /\ thr = ThrOff /\ tasks = TasksOff /\ pair = PairOff
    /\ \E e \in Engines, r \in WindowHeaders :
          dec = [on |-> TRUE, engine |-> e, req |-> EmptyDict, resp |-> r,
                 phase |-> "input", t0 |-> 0, t |-> 0, result |-> STALE,
                 covers |-> FALSE]

\* the evaluator reads the clock for `now` and compares the age with the
\* window
WindowCheck ==
    /\ dec.on /\ dec.phase = "dated"
    /\ dec' = [dec EXCEPT
                  !.phase = "decided", !.t = now,
                  !.covers = IF dec.engine = "policy"
                                 THEN check_stale_if_error_at(dec.resp, dec.t0, now)
                                 ELSE HTTPCache_stale_error_check_at(dec.resp, dec.t0, now)]
    /\ UNCHANGED now
    /\ FreshFrame

NextWindow == FreshTick \/ FreshDate \/ WindowCheck

SpecWindow == InitWindow /\ [][NextWindow]_vars

----------------------------------------------------------------------------
(* Vocabulary of the freshness properties *)

Decided == dec.on /\ dec.phase = "decided"

\* age of the cached response when it was classified: now minus its Date,
\* or minus the instant substituted for a missing Date
DecAge ==
    IF CIHas(dec.resp, "Date") THEN AgeAt([headers |-> dec.resp], dec.t)
    ELSE dec.t - dec.t0

\* the response's max-age=N with N an integer, and N
HasMaxAge == HasIntDirective(dec.resp, "max-age")
MaxAgeN == IntDirective(dec.resp, "max-age")

\* what the engine answers for the same response at the same instant when
\* the request's Cache-Control is `parts`
DecisionFor(parts) ==
    LET q == IF parts = <<>> THEN EmptyDict ELSE Headers({"Cache-Control"}, parts, 0, 0)
    IN  IF dec.engine = "policy" THEN check_freshness_at(q, dec.resp, dec.t0, dec.t)
        ELSE HTTPCache_check_freshness_at(q, dec.resp, dec.t0, dec.t)

\* the request's directives without directive k
DirectivesWithout(k) ==
    SelectSeq(Directives(dec.req), LAMBDA p : p.k # k)

\* the response's Expires header is what the baseline is computed from,
\* and its value is no date
ExpiresUnparseable ==
    /\ ~HasDirective(dec.resp, "max-age")
    /\ CIHas(dec.resp, "Expires") /\ CIGet(dec.resp, "Expires") = BadDate

\* the request carries neither no-cache nor only-if-cached and the
\* response no no-cache: the decision is computed from the entry's age
\* and, without max-age, from an Expires header holding a date
AgeBased ==
    /\ ~HasDirective(dec.req, "no-cache")
    /\ ~HasDirective(dec.resp, "no-cache")
    /\ ~HasDirective(dec.req, "only-if-cached")
    /\ ~ExpiresUnparseable

----------------------------------------------------------------------------
(* C25: decision order *)

\* C25: the decision is TRANSPARENT whenever the request carries no-cache;
\* otherwise STALE whenever the response carries no-cache; otherwise FRESH
\* whenever the request carries only-if-cached, whatever the entry's age,
\* max-age or Expires; only otherwise is it computed from the age, and is
\* then FRESH or STALE.
C25_DecisionOrder ==
    Decided =>
        IF HasDirective(dec.req, "no-cache") THEN dec.result = TRANSPARENT
        ELSE IF HasDirective(dec.resp, "no-cache") THEN dec.result = STALE
        ELSE IF HasDirective(dec.req, "only-if-cached") THEN dec.result = FRESH
        ELSE ~ExpiresUnparseable => dec.result \in {FRESH, STALE}

\* only-if-cached makes an entry FRESH whose age is beyond its max-age and
\* whose Expires has passed
C25_Witness ==
    /\ Decided /\ dec.result = FRESH
    /\ HasDirective(dec.req, "only-if-cached")
    /\ HasMaxAge /\ DecAge > MaxAgeN
    /\ CIHas(dec.resp, "Expires") /\ dec.t > CIGet(dec.resp, "Expires")

----------------------------------------------------------------------------
(* C26: TRANSPARENT bypass *)

\* an entry was found for a request that carries Cache-Control: no-cache
C26_NoCacheOnEntry ==
    /\ last.kind # "none" /\ last.idx > 0
    /\ HasDirective(last.request.headers, "no-cache")

\* C26 as stated: when an entry was found and the request carries no-cache,
\* the request goes to the transport with the headers the caller gave it,
\* no validator of the cached entry added, and what the call returns is not
\* the cached response.
C26_Bypass ==
    C26_NoCacheOnEntry =>
        /\ last.sent = 1
        /\ SameHeaders(last.fwd, last.request.headers)
        /\ ~last.cached

\* the part of C26 the handlers do satisfy: the request reaches the
\* transport
C26_Forwarded == C26_NoCacheOnEntry => last.sent = 1

----------------------------------------------------------------------------
(* C27: baseline freshness *)

----------------------------------------------------------------------------
(* C28: max-stale without a value *)

\* the request's directive k is of the given form
HasForm(k, kind) ==
    \E i \in 1..Len(Directives(dec.req)) :
        Directives(dec.req)[i].k = k /\ Directives(dec.req)[i].kind = kind

\* the baseline decision: what the engine answers to a request without
\* directives
BaselineFresh == DecisionFor(<<>>) = FRESH

\* C28 as stated: when the baseline decision is not fresh and the request
\* carries max-stale without a value (and no min-fresh), the entry is
\* FRESH whatever its age and whether or not it has max-age.
C28_BareMaxStale ==
    (/\ Decided /\ AgeBased /\ ~BaselineFresh
     /\ HasForm("max-stale", "none") /\ ~HasDirective(dec.req, "min-fresh")) =>
        dec.result = FRESH

\* what the engines do: `max-stale=` with an empty value makes the entry
\* FRESH, a bare `max-stale` leaves the baseline decision as it is
C28_AsCoded ==
    (Decided /\ AgeBased /\ ~BaselineFresh /\ ~HasDirective(dec.req, "min-fresh")) =>
        /\ HasForm("max-stale", "empty") => dec.result = FRESH
        /\ HasForm("max-stale", "none") => dec.result = STALE

----------------------------------------------------------------------------
(* C29: max-stale=M *)

\* the request's max-stale=M with M an integer, and M
HasMaxStale == HasIntDirective(dec.req, "max-stale")
MaxStaleM == IntDirective(dec.req, "max-stale")

C29_WitnessBeyond ==
    /\ Decided /\ AgeBased /\ HasMaxStale /\ HasMaxAge
    /\ DecAge - MaxAgeN > MaxStaleM
    /\ dec.result = STALE

----------------------------------------------------------------------------
(* C30: min-fresh=F *)

\* the request's min-fresh=F with F an integer, and F
HasMinFresh == HasIntDirective(dec.req, "min-fresh")
MinFreshF == IntDirective(dec.req, "min-fresh")

\* the accumulated decision: what the engine answers to the same request
\* without its min-fresh
AccumulatedFresh == DecisionFor(DirectivesWithout("min-fresh")) = FRESH

C30_WitnessEnough ==
    /\ Decided /\ AgeBased /\ HasMinFresh /\ AccumulatedFresh
    /\ HasMaxAge /\ MaxAgeN - DecAge >= MinFreshF
    /\ dec.result = FRESH

\* an entry fresh by its Expires alone is not touched by min-fresh
C30_WitnessExpires ==
    /\ Decided /\ AgeBased /\ HasMinFresh /\ AccumulatedFresh
    /\ ~HasDirective(dec.resp, "max-age")
    /\ dec.result = FRESH

----------------------------------------------------------------------------
(* C31: missing Date *)

\* the cached response has no Date header and max-age=N with N an integer
\* N >= 0; the request has no directives and the response no no-cache
C31_NoDate ==
    /\ Decided /\ ~CIHas(dec.resp, "Date")
    /\ dec.req = EmptyDict /\ ~HasDirective(dec.resp, "no-cache")
    /\ HasMaxAge /\ MaxAgeN >= 0

\* C31 as stated: a cached response without a Date header is given age 0,
\* so with max-age=N (N >= 0) it is classified FRESH on every lookup.
C31_MissingDateFresh == C31_NoDate => dec.result = FRESH

\* what the engines do: the age of a response without Date is the time
\* between the two clock reads, and the entry is FRESH iff that is at
\* most N; the engine does not fail
C31_AsCoded ==
    C31_NoDate =>
        /\ dec.result \in {FRESH, STALE}
        /\ (dec.result = FRESH) = (dec.t - dec.t0 <= MaxAgeN)

\* the stale-if-error evaluator likewise: without Date, a window of S is
\* said to cover the entry iff the time between the two clock reads is at
\* most S
C31_WindowAsCoded ==
    (/\ Decided /\ ~CIHas(dec.resp, "Date")
     /\ HasIntDirective(dec.resp, "stale-if-error")) =>
        dec.covers = (dec.t - dec.t0 <= IntDirective(dec.resp, "stale-if-error"))

\* a response without Date and with stale-if-error=0 that the evaluator
\* does not cover
C31_WindowMissed ==
    /\ Decided /\ ~CIHas(dec.resp, "Date")
    /\ HasIntDirective(dec.resp, "stale-if-error") /\ ~dec.covers

----------------------------------------------------------------------------
(* C32: coercion failures *)

\* a value of the inputs is not what its consumer coerces it to: a
\* max-age, max-stale or min-fresh that is no integer, or an Expires that
\* is no date
C32_Uncoercible ==
    \/ \E i \in 1..Len(Directives(dec.resp)) :
          Directives(dec.resp)[i].k = "max-age" /\ Directives(dec.resp)[i].kind = "str"
    \/ HasForm("max-stale", "str")
    \/ HasForm("min-fresh", "str")
    \/ (CIHas(dec.resp, "Expires") /\ CIGet(dec.resp, "Expires") = BadDate)

\* C32 as stated: whatever values of max-age, max-stale, min-fresh and
\* Expires cannot be coerced, the engine returns FRESH, STALE or
\* TRANSPARENT and never raises.
C32_NeverAborts ==
    (Decided /\ C32_Uncoercible) => dec.result \in {FRESH, STALE, TRANSPARENT}

\* what the engines do: the decision is abandoned with ValueError exactly
\* when it reaches an Expires header that is no date, which is when no
\* directive short-cuts it and the response has no max-age
C32_AsCoded ==
    Decided =>
        (dec.result = VALUE_ERROR) =
            (/\ ~HasDirective(dec.req, "no-cache")
             /\ ~HasDirective(dec.resp, "no-cache")
             /\ ~HasDirective(dec.req, "only-if-cached")
             /\ ExpiresUnparseable)

\* the numeric part of C32: a max-age that is no integer makes the
\* baseline not fresh, also when Expires has not passed; a max-stale that
\* is no integer relaxes nothing and a min-fresh that is no integer
\* restricts nothing
C32_NumericCollapse ==
    (Decided /\ AgeBased) =>
        /\ (HasDirective(dec.resp, "max-age") /\ ~HasMaxAge /\ dec.req = EmptyDict)
              => dec.result = STALE
        /\ (HasForm("max-stale", "str") /\ ~HasDirective(dec.req, "min-fresh"))
              => (dec.result = FRESH) = BaselineFresh
        /\ HasForm("min-fresh", "str")
              => (dec.result = FRESH) = AccumulatedFresh

----------------------------------------------------------------------------
(* C33: revalidation assembly *)

\* an entry was found, was not classified FRESH (the request went on to
\* the transport) and the request carries no no-cache: it was classified
\* STALE
C33_Stale ==
    /\ last.kind # "none" /\ last.idx > 0 /\ last.sent = 1
    /\ ~HasDirective(last.request.headers, "no-cache")

\* the forwarded request carries header k, and carries it with value v only
CarriesOnly(h, k, v) == CIHas(h, k) /\ \A x \in CIKeys(h, k) : h[x] = v

\* C33 as stated: when the cached response is classified STALE, the
\* forwarded request carries If-None-Match equal to the cached ETag if
\* there is one and If-Modified-Since equal to the cached Last-Modified if
\* there is one, in place of any value the caller's request had.
C33_Validators ==
    C33_Stale =>
        /\ CIHas(last.found.headers, "ETag") =>
              CarriesOnly(last.fwd, "If-None-Match", CIGet(last.found.headers, "ETag"))
        /\ CIHas(last.found.headers, "Last-Modified") =>
              CarriesOnly(last.fwd, "If-Modified-Since",
                          CIGet(last.found.headers, "Last-Modified"))

\* what the handlers do with the ETag: they write it under the name
\* if-none-matched, and leave an If-None-Match of the caller's as it was
C33_ETagAsCoded ==
    (C33_Stale /\ CIHas(last.found.headers, "ETag")) =>
        /\ CarriesOnly(last.fwd, "if-none-matched", CIGet(last.found.headers, "ETag"))
        /\ CIHas(last.request.headers, "If-None-Match") =>
              CarriesOnly(last.fwd, "If-None-Match",
                          CIGet(last.request.headers, "If-None-Match"))
        /\ ~CIHas(last.request.headers, "If-None-Match") =>
              ~CIHas(last.fwd, "If-None-Match")

\* the Last-Modified half of C33 for the two integrations whose request
\* headers are a case-insensitive mapping
C33_LastModified ==
    (C33_Stale /\ impl # "Aiohttp" /\ CIHas(last.found.headers, "Last-Modified")) =>
        CarriesOnly(last.fwd, "If-Modified-Since",
                    CIGet(last.found.headers, "Last-Modified"))

\* AiohttpCacheSession writes if-modified-since into the caller's plain
\* dict, beside an If-Modified-Since the caller put there
C33_AiohttpBoth ==
    /\ C33_Stale /\ impl = "Aiohttp"
    /\ CIHas(last.found.headers, "Last-Modified")
    /\ Cardinality(CIKeys(last.fwd, "If-Modified-Since")) = 2

----------------------------------------------------------------------------
(* C34: stale-if-error not applicable *)

\* a cached response was found, the request went to the transport, the
\* transport raised or answered 5xx, and the cached response has no
\* stale-if-error=S with an integer S that is at least its age
C34_NotApplicable ==
    /\ last.kind # "none" /\ last.idx > 0 /\ last.sent = 1
    /\ (last.tr.raises \/ last.tr.status_code >= 500)
    /\ ~WindowCovers(last.found, last.t)

\* C34 as stated: when stale-if-error is absent, not an integer or
\* exceeded by the entry's age, the failure is not masked: the cached
\* response is not returned, the exception is raised to the caller or the
\* 5xx response returned, and after a 5xx outside the cacheable set no
\* backend holds the key.
C34_NeverMasked ==
    C34_NotApplicable =>
        /\ ~last.cached
        /\ last.tr.raises => (last.kind = "raise" /\ last.exc = last.tr.exc)
        /\ ~last.tr.raises =>
              /\ last.kind = "response"
              /\ last.resp.status_code = last.tr.status_code
              /\ ~HasStaleWarning(last.resp)
              /\ last.tr.status_code \notin codes =>
                    \A i \in 1..Len(backends) : ~Holds(backends[i], Key)

\* C34 for HTTPCache and AiohttpCacheSession
C34_NeverMaskedSync == impl # "Httpx" => C34_NeverMasked

\* the evaluator itself, given the headers with the Date under its
\* name: it says the window covers the entry only when stale-if-error=S
\* has an integer S and the entry's age is at most S
C34_EvaluatorRefuses ==
    (Decided /\ dec.covers) =>
        /\ HasIntDirective(dec.resp, "stale-if-error")
        /\ DecAge <= IntDirective(dec.resp, "stale-if-error")

----------------------------------------------------------------------------
(* Tiers that differ: the integration starts with each tier holding what
   one earlier exchange stored in it (a set that failed on one tier, or a
   tier kept from an earlier run, leaves the tiers with different entries),
   and makes one more call *)

\* the earlier answers: two that are stored and one that is not
EarlierAnswers == {Ok200(0), StaleIfError200(0), NoStore200(0)}

\* tier n of integration i after a GET answered tr at instant 0
TierAfter(i, cs, tr, n) ==
    (CASE i = "HTTPCache" -> HTTPCache_send(Tiers, PlainGet, tr, NoFault, 0)
       [] i = "Httpx" -> Httpx_request(Tiers, cs, PlainGet, tr, NoFault, 0)
       [] OTHER -> Aiohttp_request(Tiers, cs, PlainGet, tr, NoFault, 0)).bs[n]

InitOrder ==
    /\ \E i \in Impls, a \in EarlierAnswers, b \in EarlierAnswers :
          /\ impl = i
          /\ ctor = Construct(i, {}).ctor
          /\ codes = Construct(i, {}).codes
          /\ backends = <<TierAfter(i, Construct(i, {}).codes, a, 1),
                          TierAfter(i, Construct(i, {}).codes, b, 2)>>
    /\ chaos = FALSE
    /\ now = 0
    /\ last = NoCall
    /\ calls = MaxCalls - 1
    /\ sends = 0
    /\ cleared = FALSE
    /\ codec = CodecOff
    /\ Idle

SpecOrder == InitOrder /\ [][Next]_vars

----------------------------------------------------------------------------
(* C35: lookup order *)

\* the lowest index of a backend that holds the key, 0 when none does
LowestHolder(bs, key) ==
    IF \E n \in 1..Len(bs) : Holds(bs[n], key)
        THEN CHOOSE n \in 1..Len(bs) :
                Holds(bs[n], key) /\ \A m \in 1..(n - 1) : ~Holds(bs[m], key)
        ELSE 0

\* the get operations of a call, in the order they were made
Gets(ops) == SelectSeq(ops, LAMBDA o : o[1] = "get")

\* C35: a lookup reads the backends in index order up to the first that
\* holds the key and returns that backend's entry, whatever later
\* backends hold; its read repair sets that entry into the backends before
\* it; the backends after it are not read, and are not written unless the
\* call goes on to the transport.
C35_LookupOrder ==
    [][(IsCall /\ Gets(last'.ops) # <<>>) =>
        LET w == LowestHolder(backends, Key)
            n == IF w = 0 THEN Len(backends) ELSE w
        IN  /\ last'.idx = w
            /\ w > 0 => last'.found = Held(backends[w], Key)
            /\ Gets(last'.ops) =
                  [k \in 1..n |-> <<"get", k, IF k = w THEN "hit" ELSE "miss">>]
            /\ SubSeq(last'.ops, 1, n) = Gets(last'.ops)
            /\ w > 1 => SubSeq(last'.ops, n + 1, n + w - 1) =
                            [j \in 1..(w - 1) |-> <<"set", j, "ok">>]
            /\ last'.sent = 0 =>
                  /\ Len(last'.ops) = n + (IF w > 1 THEN w - 1 ELSE 0)
                  /\ \A m \in (w + 1)..Len(backends) : backends'[m] = backends[m]
    ]_vars

\* the first tier's entry was returned without a transport send while the
\* second tier holds a different entry for the key
C35_Witness ==
    /\ last.kind = "response" /\ last.idx = 1 /\ last.sent = 0 /\ ~cleared
    /\ Holds(backends[2], Key)
    /\ Held(backends[2], Key) # last.found
    /\ last.resp.status_code = last.found.status_code

----------------------------------------------------------------------------
(* C36: fresh hit *)

\* what a backend stores: its keys with their entries and expiries
Stored(b) == {b.cache[n] : n \in 1..Len(b.cache)}

\* how the integration classified the found entry for the request
C36_Classification ==
    CASE impl = "HTTPCache" ->
            HTTPCache_check_freshness(last.request.headers, last.found.headers, last.t)
      [] impl = "Httpx" ->
            check_freshness(LowerKeys(last.request.headers),
                            LowerKeys(last.found.headers), last.t)
      [] OTHER -> check_freshness(last.request.headers, last.found.headers, last.t)

\* the call found the key in the first backend and classified it FRESH
C36_FreshInFirst ==
    /\ Cacheable(last.request) /\ last.f = NoFault
    /\ last.idx = 1 /\ C36_Classification = FRESH

\* C36: a call that finds the key in the first backend and classifies it
\* FRESH returns the cached response without a transport send; it makes
\* one get on the first backend and no set or delete, and every backend
\* stores after the call what it stored before.
C36_FreshHit ==
    [][(IsCall /\ C36_FreshInFirst') =>
            /\ last'.kind = "response" /\ last'.cached
            /\ last'.sent = 0 /\ sends' = sends
            /\ last'.ops = <<<<"get", 1, "hit">>>>
            /\ \A n \in 1..Len(backends) : Stored(backends'[n]) = Stored(backends[n])
    ]_vars

\* a fresh entry of the first backend was returned while the second backend
\* holds another entry or none
C36_Witness ==
    /\ C36_FreshInFirst /\ ~cleared /\ last.sent = 0
    /\ last.kind = "response" /\ last.ops = <<<<"get", 1, "hit">>>>
    /\ Stored(backends[2]) # Stored(backends[1])

----------------------------------------------------------------------------
(* C37: no-store does not invalidate *)

\* the operations of a call that write: its sets and deletes
Writes(ops) == SelectSeq(ops, LAMBDA o : o[1] \in {"set", "delete"})

\* an entry is stored for the key, and the call's cachable request is
\* answered by the transport with a cacheable status and no-store
C37_NoStoreAnswer ==
    /\ IsCall
    /\ \E n \in 1..Len(backends) : Holds(backends[n], Key)
    /\ Cacheable(last'.request) /\ last'.f = NoFault
    /\ last'.sent = 1 /\ ~last'.tr.raises
    /\ last'.tr.status_code \in codes
    /\ HasDirective(last'.tr.headers, "no-store")

----------------------------------------------------------------------------
(* C38: 304 without a cached entry *)

\* the transport answered 304, which is not a cacheable status, on a call
\* whose lookup found nothing or was not made
C38_BareNotModified ==
    /\ IsCall /\ last'.f = NoFault
    /\ last'.sent = 1 /\ ~last'.tr.raises
    /\ last'.tr.status_code = NOT_MODIFIED /\ NOT_MODIFIED \notin codes
    /\ last'.idx = 0

\* C38: such a call returns the transport's 304 with the transport's
\* headers (names compared without case) and body, makes no set and no delete, and every backend stores
\* after it what it stored before.
C38_NotModifiedPassesThrough ==
    [][C38_BareNotModified =>
          /\ last'.kind = "response" /\ ~last'.cached
          /\ last'.resp.status_code = NOT_MODIFIED
          /\ LowerKeys(last'.resp.headers) = LowerKeys(last'.tr.headers)
          /\ last'.resp.content = last'.tr.content
          /\ Writes(last'.ops) = <<>>
          /\ \A n \in 1..Len(backends) : Stored(backends'[n]) = Stored(backends[n])
    ]_vars

\* a 304 was returned to a request that skipped the lookup while the
\* backends hold an entry for its key, and the entry is still there
C38_Witness ==
    /\ last.sent = 1 /\ last.tr = NotModified304 /\ last.idx = 0
    /\ last.ops = <<>> /\ ~cleared
    /\ last.kind = "response" /\ last.resp.status_code = NOT_MODIFIED
    /\ \A n \in 1..Len(backends) : Holds(backends[n], Key)

\* a 304 was returned to a cachable request whose lookup missed in every
\* backend
C38_MissWitness ==
    /\ last.sent = 1 /\ last.tr = NotModified304 /\ last.idx = 0
    /\ Gets(last.ops) = [k \in 1..Len(backends) |-> <<"get", k, "miss">>]
    /\ last.kind = "response" /\ last.resp.status_code = NOT_MODIFIED

----------------------------------------------------------------------------
(* Requests that carry directives, against a stored entry: the integration
   starts with both tiers holding what one earlier GET stored, and the
   caller's next request carries Cache-Control directives *)

\* an answer that may be stored but must be revalidated before reuse
NoCache200(t) ==
    Transport(FALSE, 200,
              [x \in {"Cache-Control", "Date", "ETag"} |->
                  CASE x = "Cache-Control" -> <<Bare("no-cache"), IntVal("max-age", 2)>>
                    [] x = "Date" -> t
                    [] OTHER -> "v1"],
              <<65>>)

\* a GET whose Cache-Control carries the given directives
DirectedGet(parts) ==
    Request("GET", Url,
            IF parts = <<>> THEN EmptyDict ELSE [x \in {"Cache-Control"} |-> parts])

DirectedRequests ==
    { DirectedGet(<<>>),
      DirectedGet(<<Bare("only-if-cached")>>),
      DirectedGet(<<IntVal("max-stale", 2)>>),
      DirectedGet(<<IntVal("min-fresh", 0)>>),
      DirectedGet(<<Bare("only-if-cached"), IntVal("max-stale", 2), IntVal("min-fresh", 0)>>) }

DirectedExchanges(t) ==
    DirectedRequests \X {NoCache200(t), NotModified304, Unavailable503, TransportFails}

InitDirected ==
    /\ \E i \in Impls, a \in {NoCache200(0), Ok200(0)} :
          /\ impl = i
          /\ ctor = Construct(i, {}).ctor
          /\ codes = Construct(i, {}).codes
          /\ backends = <<TierAfter(i, Construct(i, {}).codes, a, 1),
                          TierAfter(i, Construct(i, {}).codes, a, 2)>>
    /\ chaos = FALSE
    /\ now = 0
    /\ last = NoCall
    /\ calls = MaxCalls - 1
    /\ sends = 0
    /\ cleared = FALSE
    /\ codec = CodecOff
    /\ Idle

HTTPCacheSendDirected ==
    /\ impl = "HTTPCache" /\ ctor = "ok" /\ calls < MaxCalls
    /\ \E x \in DirectedExchanges(now) :
          Record(x[1], x[2], NoFault, HTTPCache_send(backends, x[1], x[2], NoFault, now))

HttpxRequestDirected ==
    /\ impl = "Httpx" /\ ctor = "ok" /\ calls < MaxCalls
    /\ \E x \in DirectedExchanges(now) :
          Record(x[1], x[2], NoFault,
                 Httpx_request(backends, codes, x[1], x[2], NoFault, now))

AiohttpRequestDirected ==
    /\ impl = "Aiohttp" /\ ctor = "ok" /\ calls < MaxCalls
    /\ \E x \in DirectedExchanges(now) :
          Record(x[1], x[2], NoFault,
                 Aiohttp_request(backends, codes, x[1], x[2], NoFault, now))

NextDirected ==
    HTTPCacheSendDirected \/ HttpxRequestDirected \/ AiohttpRequestDirected \/ Tick

SpecDirected == InitDirected /\ [][NextDirected]_vars

----------------------------------------------------------------------------
(* C39: response no-cache always revalidates *)

\* the headers are those of a response with no-cache and without no-store
C39_NoCacheResponse(headers) ==
    HasDirective(headers, "no-cache") /\ ~HasDirective(headers, "no-store")

\* the call's lookup found an entry stored from a no-cache response
C39_FoundNoCache == last.idx > 0 /\ C39_NoCacheResponse(last.found.headers)

\* C39: a cachable request answered with a cacheable status and no-cache
\* (without no-store) leaves the answer stored in every backend; and a call
\* whose lookup finds an entry stored from such a response sends to the
\* transport before it returns or raises, whatever directives its request
\* carries: what it returns is never the entry served without a send.
C39_AlwaysRevalidates ==
    [][IsCall =>
          /\ (/\ Cacheable(last'.request) /\ last'.sent = 1 /\ ~last'.tr.raises
              /\ last'.tr.status_code \in codes
              /\ C39_NoCacheResponse(last'.tr.headers)) =>
                 \A n \in 1..Len(backends) :
                    /\ Holds(backends'[n], Key)
                    /\ C39_NoCacheResponse(Held(backends'[n], Key).headers)
                    /\ Held(backends'[n], Key).timestamp = now
          /\ C39_FoundNoCache' => (last'.sent = 1 /\ sends' = sends + 1)
    ]_vars

\* a request with only-if-cached, max-stale and min-fresh found a no-cache
\* entry within its max-age, and the transport was asked
C39_Witness ==
    /\ C39_FoundNoCache /\ last.sent = 1
    /\ HasDirective(last.request.headers, "only-if-cached")
    /\ HasDirective(last.request.headers, "max-stale")
    /\ HasDirective(last.request.headers, "min-fresh")
    /\ last.t <= 2
    /\ last.kind = "response"

====
